---- MODULE Spec2Model ----
(***************************************************************************)
(* Model of the DiffTracker extension: the patience-diff aligner, the line *)
(* classifier / inline view builder (diffTracker.ts), the change-block     *)
(* grouping of the CodeLens provider (codeLensProvider.ts) and the         *)
(* DiffTracker change store.                                               *)
(*                                                                         *)
(* A line is a sequence of one-character strings; a document content is a *)
(* sequence of characters in which NL separates lines.  Array indices are  *)
(* 0-based as in the source and are read through At / Slice.               *)
(***************************************************************************)
EXTENDS Integers, Sequences, FiniteSets, TLC

VARIABLES
    originalLines,   \* buildDiffViewFromLines: first argument
    currentLines,    \* buildDiffViewFromLines: second argument
    arrayDiff,       \* run list returned by patienceDiff
    diffView,        \* { lineChanges, inlineView } returned by buildDiffViewFromLines
    changeBlocks,    \* block list returned by getChangeBlocks
    pc,              \* position in the pipeline
    isRecording,     \* DiffTracker.isRecording
    fileSnapshots,   \* DiffTracker.fileSnapshots: path -> baseline content
    trackedChanges,  \* DiffTracker.trackedChanges: path -> FileDiff
    lineChanges,     \* DiffTracker.lineChanges: path -> LineChange[]
    inlineViews,     \* DiffTracker.inlineViews: path -> InlineDiffView
    textDocuments,   \* vscode.workspace.textDocuments: open document -> text
    lastEvent,       \* the TextDocumentChangeEvent handled by the last operation
    fired,           \* the events the last operation emitted, in order
    sinceClear,      \* clearDiffs ran and only queries were made since
    revert           \* the revert or keep call in flight or just returned

diffVars == <<originalLines, currentLines, arrayDiff, diffView, changeBlocks, pc>>

trackerVars == <<isRecording, fileSnapshots, trackedChanges, lineChanges, inlineViews>>

storeVars == <<isRecording, fileSnapshots, trackedChanges, lineChanges, inlineViews,
               textDocuments, lastEvent, fired, sinceClear, revert>>

vars == <<originalLines, currentLines, arrayDiff, diffView, changeBlocks, pc,
          isRecording, fileSnapshots, trackedChanges, lineChanges, inlineViews,
          textDocuments, lastEvent, fired, sinceClear, revert>>

----------------------------------------------------------------------------
(* Bounds and input alphabets *)

MaxLines == 3

NL == "\n"

BlankLine == <<>>
LineA     == <<"a">>
LineB     == <<"b">>
LineHashA == <<"#", "a">>

DiffLines == {BlankLine, LineA, LineB, LineHashA}

\* inputs of the pairing heuristic: a long side and a short side
MaxPairLong == 7

MaxPairShort == 2

LineAB  == <<"a", "b">>
LineABC == <<"a", "b", "c">>
LineC   == <<"c">>

PairLongLines == {LineAB, LineC}

PairShortLines == {LineAB, LineABC}

\* inputs of the anchor search and of the positional diff
MaxRangeLines == 3

RangeLines == {LineA, LineB, LineHashA}

\* inputs of the similarity score: two lines over ScoreChars
MaxScoreLen == 3

ScoreChars == {"a", "b", "#", " "}

\* inputs of the line normalisation: one line over MarkerChars
MaxMarkerLen == 4

MarkerChars == {"x", "#", "-", "/", "*", " "}

\* documents and contents of the change store
FileDoc1 == [scheme |-> "file", fsPath |-> "/w/one"]
FileDoc2 == [scheme |-> "file", fsPath |-> "/w/two"]
OtherDoc == [scheme |-> "untitled", fsPath |-> "Untitled-1"]

Documents == {FileDoc1, FileDoc2, OtherDoc}

Paths == {d.fsPath : d \in Documents}

StoreContents == {<<>>, <<"a">>, <<"a", NL, "b">>}

\* the paths revertFile is called with
RevertPaths == {FileDoc1.fsPath}

\* longest text a revert or keep may leave in a document or a baseline
MaxTextLen == 3

\* the same cap where revertFile and revertAllChanges run side by side
MaxSessionTextLen == 2

\* block indices revertBlock and keepBlock are called with: -1..MaxBlockIndex
MaxBlockIndex == 2

BlockIndices == (0 - 1)..MaxBlockIndex

SeqsUpTo(S, n) == UNION {[1..k -> S] : k \in 0..n}

----------------------------------------------------------------------------
(* Array helpers *)

At(s, i) == s[i + 1]

Slice(s, a, b) == SubSeq(s, a + 1, b)

Min2(a, b) == IF a < b THEN a ELSE b

Max2(a, b) == IF a > b THEN a ELSE b

SetMax(S) == CHOOSE x \in S : \A y \in S : y <= x

SetMin(S) == CHOOSE x \in S : \A y \in S : x <= y

RECURSIVE Flatten(_)
Flatten(ss) == IF ss = <<>> THEN <<>> ELSE Head(ss) \o Flatten(Tail(ss))

----------------------------------------------------------------------------
(* Runs of the aligner: { value, added?, removed? } *)

EqualRun(v)   == [value |-> v, added |-> FALSE, removed |-> FALSE]
AddedRun(v)   == [value |-> v, added |-> TRUE,  removed |-> FALSE]
RemovedRun(v) == [value |-> v, added |-> FALSE, removed |-> TRUE]

findUniqueLineIndices_WholeFile(lines, start, end) ==
    LET count(line) == Cardinality({i \in 0..(Len(lines) - 1) : At(lines, i) = line})
        uniqueIdx   == {i \in start..(end - 1) : count(At(lines, i)) = 1}
    IN  [line \in {At(lines, i) : i \in uniqueIdx} |->
            CHOOSE i \in uniqueIdx : At(lines, i) = line]

findUniqueLineIndices(lines, start, end) ==
    LET count(line) == Cardinality({i \in start..(end - 1) : At(lines, i) = line})
        uniqueIdx   == {i \in start..(end - 1) : count(At(lines, i)) = 1}
    IN  [line \in {At(lines, i) : i \in uniqueIdx} |->
            CHOOSE i \in uniqueIdx : At(lines, i) = line]

longestIncreasingSubsequence_Unordered(nums) == [k \in 1..Len(nums) |-> k - 1]

longestIncreasingSubsequence(nums) ==
    IF Len(nums) = 0 THEN <<>>
    ELSE
      LET n == Len(nums)
          cands(i) == {j \in 0..(i - 1) : At(nums, j) < At(nums, i)}
          dp[i \in 0..(n - 1)] ==
              IF cands(i) = {} THEN 1
              ELSE 1 + SetMax({dp[j] : j \in cands(i)})
          parent(i) ==
              IF cands(i) = {} THEN -1
              ELSE SetMin({j \in cands(i) : dp[j] + 1 = dp[i]})
          maxLen == SetMax({dp[i] : i \in 0..(n - 1)})
          maxIdx == SetMin({i \in 0..(n - 1) : dp[i] = maxLen})
          chain[idx \in -1..(n - 1)] ==
              IF idx = -1 THEN <<>> ELSE Append(chain[parent(idx)], idx)
      IN  chain[maxIdx]

findAnchors(oldLines, oldUniques, newLines, newUniques) ==
    LET common == DOMAIN oldUniques \cap DOMAIN newUniques
        oldIdxs == {oldUniques[line] : line \in common}
        sorted[k \in 0..Cardinality(oldIdxs)] ==
            IF k = 0 THEN <<>>
            ELSE LET done == {sorted[k - 1][q].oldIdx : q \in 1..(k - 1)}
                     o    == SetMin(oldIdxs \ done)
                 IN  Append(sorted[k - 1],
                            [line |-> At(oldLines, o), oldIdx |-> o,
                             newIdx |-> newUniques[At(oldLines, o)]])
        commonUniques == sorted[Cardinality(oldIdxs)]
        lcs == longestIncreasingSubsequence(
                   [k \in 1..Len(commonUniques) |-> commonUniques[k].newIdx])
    IN  IF common = {} THEN <<>>
        ELSE [k \in 1..Len(lcs) |->
                 <<At(commonUniques, lcs[k]).oldIdx, At(commonUniques, lcs[k]).newIdx>>]

\* while (leadingUnchanged < minLen && old[oldStart + n] === new[newStart + n])
leadingUnchangedCount(oldLines, oldStart, newLines, newStart, minLen) ==
    CHOOSE n \in 0..minLen :
        /\ \A i \in 0..(n - 1) :
               At(oldLines, oldStart + i) = At(newLines, newStart + i)
        /\ \/ n = minLen
           \/ At(oldLines, oldStart + n) # At(newLines, newStart + n)

trailingUnchangedCount_Overlapping(oldLines, oldEnd, newLines, newEnd, minLen, leading) ==
    CHOOSE n \in 0..minLen :
        /\ \A i \in 0..(n - 1) :
               At(oldLines, oldEnd - 1 - i) = At(newLines, newEnd - 1 - i)
        /\ \/ n = minLen
           \/ At(oldLines, oldEnd - 1 - n) # At(newLines, newEnd - 1 - n)

\* while (trailingUnchanged < minLen - leadingUnchanged && old[oldEnd-1-n] === new[newEnd-1-n])
trailingUnchangedCount(oldLines, oldEnd, newLines, newEnd, minLen, leading) ==
    CHOOSE n \in 0..(minLen - leading) :
        /\ \A i \in 0..(n - 1) :
               At(oldLines, oldEnd - 1 - i) = At(newLines, newEnd - 1 - i)
        /\ \/ n = minLen - leading
           \/ At(oldLines, oldEnd - 1 - n) # At(newLines, newEnd - 1 - n)

positionalDiff_PrefixFirst(oldLines, oldStart, oldEnd, newLines, newStart, newEnd) ==
    LET oldLen == oldEnd - oldStart
        newLen == newEnd - newStart
        delSuffixMatch ==
            \A i \in 0..(newLen - 1) :
                At(oldLines, oldStart + (oldLen - newLen) + i) = At(newLines, newStart + i)
        delPrefixMatch ==
            \A i \in 0..(newLen - 1) :
                At(oldLines, oldStart + i) = At(newLines, newStart + i)
        addSuffixMatch ==
            \A i \in 0..(oldLen - 1) :
                At(newLines, newStart + (newLen - oldLen) + i) = At(oldLines, oldStart + i)
        addPrefixMatch ==
            \A i \in 0..(oldLen - 1) :
                At(newLines, newStart + i) = At(oldLines, oldStart + i)
        minLen == Min2(oldLen, newLen)
        leadingUnchanged ==
            leadingUnchangedCount(oldLines, oldStart, newLines, newStart, minLen)
        trailingUnchanged ==
            trailingUnchangedCount(oldLines, oldEnd, newLines, newEnd, minLen,
                                   leadingUnchanged)
        oldMiddleStart == oldStart + leadingUnchanged
        oldMiddleEnd   == oldEnd - trailingUnchanged
        newMiddleStart == newStart + leadingUnchanged
        newMiddleEnd   == newEnd - trailingUnchanged
    IN  IF oldLen = 0 /\ newLen > 0 THEN
            <<AddedRun(Slice(newLines, newStart, newEnd))>>
        ELSE IF newLen = 0 /\ oldLen > 0 THEN
            <<RemovedRun(Slice(oldLines, oldStart, oldEnd))>>
        ELSE IF oldLen > newLen /\ delPrefixMatch THEN
            <<EqualRun(Slice(oldLines, oldStart, oldStart + newLen)),
              RemovedRun(Slice(oldLines, oldStart + newLen, oldEnd))>>
        ELSE IF oldLen > newLen /\ delSuffixMatch THEN
            <<RemovedRun(Slice(oldLines, oldStart, oldStart + (oldLen - newLen))),
              EqualRun(Slice(oldLines, oldStart + (oldLen - newLen), oldEnd))>>
        ELSE IF newLen > oldLen /\ addPrefixMatch THEN
            <<EqualRun(Slice(newLines, newStart, newStart + oldLen)),
              AddedRun(Slice(newLines, newStart + oldLen, newEnd))>>
        ELSE IF newLen > oldLen /\ addSuffixMatch THEN
            <<AddedRun(Slice(newLines, newStart, newStart + (newLen - oldLen))),
              EqualRun(Slice(newLines, newStart + (newLen - oldLen), newEnd))>>
        ELSE
            (IF leadingUnchanged > 0
               THEN <<EqualRun(Slice(oldLines, oldStart, oldStart + leadingUnchanged))>>
               ELSE <<>>)
            \o (IF oldMiddleStart < oldMiddleEnd
               THEN <<RemovedRun(Slice(oldLines, oldMiddleStart, oldMiddleEnd))>>
               ELSE <<>>)
            \o (IF newMiddleStart < newMiddleEnd
               THEN <<AddedRun(Slice(newLines, newMiddleStart, newMiddleEnd))>>
               ELSE <<>>)
            \o (IF trailingUnchanged > 0
               THEN <<EqualRun(Slice(oldLines, oldEnd - trailingUnchanged, oldEnd))>>
               ELSE <<>>)

positionalDiff(oldLines, oldStart, oldEnd, newLines, newStart, newEnd) ==
    LET oldLen == oldEnd - oldStart
        newLen == newEnd - newStart
        delSuffixMatch ==
            \A i \in 0..(newLen - 1) :
                At(oldLines, oldStart + (oldLen - newLen) + i) = At(newLines, newStart + i)
        delPrefixMatch ==
            \A i \in 0..(newLen - 1) :
                At(oldLines, oldStart + i) = At(newLines, newStart + i)
        addSuffixMatch ==
            \A i \in 0..(oldLen - 1) :
                At(newLines, newStart + (newLen - oldLen) + i) = At(oldLines, oldStart + i)
        addPrefixMatch ==
            \A i \in 0..(oldLen - 1) :
                At(newLines, newStart + i) = At(oldLines, oldStart + i)
        minLen == Min2(oldLen, newLen)
        leadingUnchanged ==
            leadingUnchangedCount(oldLines, oldStart, newLines, newStart, minLen)
        trailingUnchanged ==
            trailingUnchangedCount(oldLines, oldEnd, newLines, newEnd, minLen,
                                   leadingUnchanged)
        oldMiddleStart == oldStart + leadingUnchanged
        oldMiddleEnd   == oldEnd - trailingUnchanged
        newMiddleStart == newStart + leadingUnchanged
        newMiddleEnd   == newEnd - trailingUnchanged
    IN  IF oldLen = 0 /\ newLen > 0 THEN
            <<AddedRun(Slice(newLines, newStart, newEnd))>>
        ELSE IF newLen = 0 /\ oldLen > 0 THEN
            <<RemovedRun(Slice(oldLines, oldStart, oldEnd))>>
        ELSE IF oldLen > newLen /\ delSuffixMatch THEN
            <<RemovedRun(Slice(oldLines, oldStart, oldStart + (oldLen - newLen))),
              EqualRun(Slice(oldLines, oldStart + (oldLen - newLen), oldEnd))>>
        ELSE IF oldLen > newLen /\ delPrefixMatch THEN
            <<EqualRun(Slice(oldLines, oldStart, oldStart + newLen)),
              RemovedRun(Slice(oldLines, oldStart + newLen, oldEnd))>>
        ELSE IF newLen > oldLen /\ addSuffixMatch THEN
            <<AddedRun(Slice(newLines, newStart, newStart + (newLen - oldLen))),
              EqualRun(Slice(newLines, newStart + (newLen - oldLen), newEnd))>>
        ELSE IF newLen > oldLen /\ addPrefixMatch THEN
            <<EqualRun(Slice(newLines, newStart, newStart + oldLen)),
              AddedRun(Slice(newLines, newStart + oldLen, newEnd))>>
        ELSE
            (IF leadingUnchanged > 0
               THEN <<EqualRun(Slice(oldLines, oldStart, oldStart + leadingUnchanged))>>
               ELSE <<>>)
            \o (IF oldMiddleStart < oldMiddleEnd
               THEN <<RemovedRun(Slice(oldLines, oldMiddleStart, oldMiddleEnd))>>
               ELSE <<>>)
            \o (IF newMiddleStart < newMiddleEnd
               THEN <<AddedRun(Slice(newLines, newMiddleStart, newMiddleEnd))>>
               ELSE <<>>)
            \o (IF trailingUnchanged > 0
               THEN <<EqualRun(Slice(oldLines, oldEnd - trailingUnchanged, oldEnd))>>
               ELSE <<>>)

RECURSIVE mergeInto(_, _)
\* loop body of mergeConsecutiveChanges: result is the list built so far
mergeInto(result, changes) ==
    IF changes = <<>> THEN result
    ELSE LET change == Head(changes)
             last   == result[Len(result)]
         IN  IF Len(change.value) = 0 THEN mergeInto(result, Tail(changes))
             ELSE IF /\ Len(result) > 0
                     /\ last.added = change.added
                     /\ last.removed = change.removed
               THEN mergeInto([result EXCEPT ![Len(result)].value = @ \o change.value],
                              Tail(changes))
               ELSE mergeInto(Append(result, change), Tail(changes))

mergeConsecutiveChanges_NoMerge(changes) ==
    SelectSeq(changes, LAMBDA change : Len(change.value) > 0)

mergeConsecutiveChanges(changes) ==
    IF Len(changes) = 0 THEN <<>> ELSE mergeInto(<<>>, changes)

RECURSIVE patienceDiffRecursive(_, _, _, _, _, _)
RECURSIVE anchorBlocks(_, _, _, _, _, _, _)

\* the for-loop over the anchors plus the call after the last anchor
anchorBlocks(oldLines, newLines, anchors, prevOldIdx, prevNewIdx, oldEnd, newEnd) ==
    IF anchors = <<>> THEN
        patienceDiffRecursive(oldLines, prevOldIdx, oldEnd, newLines, prevNewIdx, newEnd)
    ELSE
        LET oldIdx == Head(anchors)[1]
            newIdx == Head(anchors)[2]
        IN  patienceDiffRecursive(oldLines, prevOldIdx, oldIdx, newLines, prevNewIdx, newIdx)
            \o <<EqualRun(<<At(oldLines, oldIdx)>>)>>
            \o anchorBlocks(oldLines, newLines, Tail(anchors),
                            oldIdx + 1, newIdx + 1, oldEnd, newEnd)

patienceDiffRecursive(oldLines, oldStart, oldEnd, newLines, newStart, newEnd) ==
    IF oldStart >= oldEnd /\ newStart >= newEnd THEN <<>>
    ELSE IF oldStart >= oldEnd THEN <<AddedRun(Slice(newLines, newStart, newEnd))>>
    ELSE IF newStart >= newEnd THEN <<RemovedRun(Slice(oldLines, oldStart, oldEnd))>>
    ELSE
        LET oldUniques == findUniqueLineIndices(oldLines, oldStart, oldEnd)
            newUniques == findUniqueLineIndices(newLines, newStart, newEnd)
            anchors    == findAnchors(oldLines, oldUniques, newLines, newUniques)
        IN  IF Len(anchors) = 0 THEN
                positionalDiff(oldLines, oldStart, oldEnd, newLines, newStart, newEnd)
            ELSE
                mergeConsecutiveChanges(
                    anchorBlocks(oldLines, newLines, anchors,
                                 oldStart, newStart, oldEnd, newEnd))

patienceDiff(oldLines, newLines) ==
    patienceDiffRecursive(oldLines, 0, Len(oldLines), newLines, 0, Len(newLines))

----------------------------------------------------------------------------
(* Text helpers: String.prototype.trim / split / join and the regexes *)

WhiteSpace == {" ", "\t"}

RECURSIVE TrimStart(_)
TrimStart(s) ==
    IF s # <<>> /\ Head(s) \in WhiteSpace THEN TrimStart(Tail(s)) ELSE s

RECURSIVE TrimEnd(_)
TrimEnd(s) ==
    IF s # <<>> /\ s[Len(s)] \in WhiteSpace THEN TrimEnd(SubSeq(s, 1, Len(s) - 1)) ELSE s

Trim(s) == TrimEnd(TrimStart(s))

StartsWith(s, p) == Len(s) >= Len(p) /\ SubSeq(s, 1, Len(p)) = p

EndsWith(s, p) == Len(s) >= Len(p) /\ SubSeq(s, Len(s) - Len(p) + 1, Len(s)) = p

\* value.replace(/^<marker>\s?/, '')
StripLeading(value, marker) ==
    IF StartsWith(value, marker) THEN
        LET rest == SubSeq(value, Len(marker) + 1, Len(value))
        IN  IF rest # <<>> /\ Head(rest) \in WhiteSpace THEN Tail(rest) ELSE rest
    ELSE value

\* value.replace(/<marker>\s?$/, '')
StripTrailing(value, marker) ==
    IF EndsWith(value, marker) THEN SubSeq(value, 1, Len(value) - Len(marker))
    ELSE IF /\ value # <<>>
            /\ value[Len(value)] \in WhiteSpace
            /\ EndsWith(SubSeq(value, 1, Len(value) - 1), marker)
      THEN SubSeq(value, 1, Len(value) - 1 - Len(marker))
    ELSE value

RECURSIVE CollapseSpaces(_)
\* value.replace(/\s+/g, ' ')
CollapseSpaces(s) ==
    IF s = <<>> THEN <<>>
    ELSE IF Head(s) \in WhiteSpace
      THEN <<" ">> \o CollapseSpaces(TrimStart(s))
      ELSE <<Head(s)>> \o CollapseSpaces(Tail(s))

RECURSIVE RemoveSpaces(_)
\* value.replace(/\s+/g, '')
RemoveSpaces(s) ==
    IF s = <<>> THEN <<>>
    ELSE IF Head(s) \in WhiteSpace THEN RemoveSpaces(Tail(s))
    ELSE <<Head(s)>> \o RemoveSpaces(Tail(s))

RECURSIVE Join(_)
\* lines.join('\n')
Join(lines) ==
    IF lines = <<>> THEN <<>>
    ELSE IF Len(lines) = 1 THEN lines[1]
    ELSE lines[1] \o <<NL>> \o Join(Tail(lines))

RECURSIVE SplitFrom(_, _)
SplitFrom(content, line) ==
    IF content = <<>> THEN <<line>>
    ELSE IF Head(content) = NL THEN <<line>> \o SplitFrom(Tail(content), <<>>)
    ELSE SplitFrom(Tail(content), Append(line, Head(content)))

\* content.split('\n')
Split(content) == SplitFrom(content, <<>>)

normalizeLineForMatch(input) ==
    LET v0 == Trim(input)
        v1 == StripLeading(v0, <<"/", "/">>)
        v2 == StripLeading(v1, <<"#">>)
        v3 == StripLeading(v2, <<"-", "-">>)
        v4 == StripLeading(v3, <<"/", "*">>)
        v5 == StripTrailing(v4, <<"*", "/">>)
        v6 == CollapseSpaces(v5)
    IN  Trim(v6)

----------------------------------------------------------------------------
(* Similarity scores are fractions <<numerator, denominator>> *)

FracGT(a, b)  == a[1] * b[2] > b[1] * a[2]
FracGE(a, b)  == a[1] * b[2] >= b[1] * a[2]
FracEQ(a, b)  == a[1] * b[2] = b[1] * a[2]
FracMax(a, b) == IF FracGE(a, b) THEN a ELSE b

similarityThreshold == <<6, 10>>

maxOffset == 5

CharSet(s) == {s[i] : i \in 1..Len(s)}

calculateSetSimilarity_KeepSpaces(str1, str2) ==
    LET cleaned1 == Trim(str1)
        cleaned2 == Trim(str2)
        set1 == CharSet(cleaned1)
        set2 == CharSet(cleaned2)
        intersection == set1 \cap set2
        union == set1 \cup set2
    IN  IF cleaned1 = <<>> /\ cleaned2 = <<>> THEN <<1, 1>>
        ELSE IF Cardinality(union) > 0
          THEN <<Cardinality(intersection), Cardinality(union)>>
          ELSE <<0, 1>>

calculateSetSimilarity(str1, str2) ==
    LET cleaned1 == RemoveSpaces(Trim(str1))
        cleaned2 == RemoveSpaces(Trim(str2))
        set1 == CharSet(cleaned1)
        set2 == CharSet(cleaned2)
        intersection == set1 \cap set2
        union == set1 \cup set2
    IN  IF cleaned1 = <<>> /\ cleaned2 = <<>> THEN <<1, 1>>
        ELSE IF Cardinality(union) > 0
          THEN <<Cardinality(intersection), Cardinality(union)>>
          ELSE <<0, 1>>

calculatePairSimilarity(deleted, addedLine, addedNormalized) ==
    IF Len(deleted.normalized) > 0 /\ deleted.normalized = addedNormalized THEN <<1, 1>>
    ELSE LET rawSimilarity == calculateSetSimilarity(deleted.text, addedLine)
             normalizedSimilarity ==
                 calculateSetSimilarity(deleted.normalized, addedNormalized)
         IN  FracMax(rawSimilarity, normalizedSimilarity)

----------------------------------------------------------------------------
(* Pairing heuristic.  pairedByAdded is the Map in insertion order, as a   *)
(* sequence of <<addedIndex, deletedIndex>>.                               *)

Abs(x) == IF x < 0 THEN -x ELSE x

candidateWindow_Unbounded(deletedLines, usedDeleted, i) ==
    {j \in 0..(Len(deletedLines) - 1) : j \notin usedDeleted}

\* the removed indices the inner loop does not skip for added index i
candidateWindow(deletedLines, usedDeleted, i) ==
    {j \in 0..(Len(deletedLines) - 1) :
        j \notin usedDeleted /\ Abs(j - i) <= maxOffset}

\* the j loop's running maximum: the first j with the largest similarity,
\* which must exceed the initial bestSimilarity 0
pickBest(window, sim) ==
    LET positive == {j \in window : FracGT(sim[j], <<0, 1>>)}
        top == {j \in positive : \A q \in positive : FracGE(sim[j], sim[q])}
    IN  IF positive = {} THEN <<-1, <<0, 1>>>>
        ELSE <<SetMin(top), sim[SetMin(top)]>>

\* inner loop over j of the similarity pass: <<bestDeleted, bestSimilarity>>
bestMatch(deletedLines, addedLines, addedNormalized, usedDeleted, i) ==
    pickBest(candidateWindow(deletedLines, usedDeleted, i),
             [j \in 0..(Len(deletedLines) - 1) |->
                 calculatePairSimilarity(At(deletedLines, j), At(addedLines, i),
                                         At(addedNormalized, i))])

\* if (bestDeleted >= 0 && bestSimilarity >= similarityThreshold) { ... }
acceptBest(acc, i, best) ==
    IF best[1] >= 0 /\ FracGE(best[2], similarityThreshold)
    THEN [pairedByAdded |-> Append(acc.pairedByAdded, <<i, best[1]>>),
          usedDeleted   |-> acc.usedDeleted \cup {best[1]},
          usedAdded     |-> acc.usedAdded \cup {i}]
    ELSE acc

RECURSIVE similarityPass(_, _, _, _, _)
\* outer loop over i of the similarity pass, from added index i on
similarityPass(deletedLines, addedLines, addedNormalized, acc, i) ==
    IF i >= Len(addedLines) THEN acc
    ELSE similarityPass(deletedLines, addedLines, addedNormalized,
             acceptBest(acc, i,
                 bestMatch(deletedLines, addedLines, addedNormalized,
                           acc.usedDeleted, i)),
             i + 1)

\* ascending sequence of the members of 0..(n-1) that are not in used
UnusedIndices(n, used) ==
    LET rest == (0..(n - 1)) \ used
        f[k \in 0..Cardinality(rest)] ==
            IF k = 0 THEN <<>>
            ELSE Append(f[k - 1], SetMin(rest \ {f[k - 1][q] : q \in 1..(k - 1)}))
    IN  f[Cardinality(rest)]

samePositionPass_Skipped(deletedLines, addedLines) ==
    [pairedByAdded |-> <<>>, usedDeleted |-> {}, usedAdded |-> {}]

\* first pass: pair same-position lines when both sides have the same length
samePositionPass(deletedLines, addedLines) ==
    LET minLen == Min2(Len(deletedLines), Len(addedLines))
    IN  IF Len(deletedLines) = Len(addedLines)
        THEN [pairedByAdded |-> [k \in 1..minLen |-> <<k - 1, k - 1>>],
              usedDeleted   |-> 0..(minLen - 1),
              usedAdded     |-> 0..(minLen - 1)]
        ELSE [pairedByAdded |-> <<>>, usedDeleted |-> {}, usedAdded |-> {}]

\* the returned { pairedByAdded, unpairedDeleted, unpairedAdded }
pairingResult(deletedLines, addedLines, final) ==
    [pairedByAdded   |-> final.pairedByAdded,
     unpairedDeleted |-> UnusedIndices(Len(deletedLines), final.usedDeleted),
     unpairedAdded   |-> UnusedIndices(Len(addedLines), final.usedAdded)]

pairLinesBySimilarity(deletedLines, addedLines, addedNormalized) ==
    pairingResult(deletedLines, addedLines,
        IF Len(deletedLines) # Len(addedLines)
        THEN similarityPass(deletedLines, addedLines, addedNormalized,
                            samePositionPass(deletedLines, addedLines), 0)
        ELSE samePositionPass(deletedLines, addedLines))

----------------------------------------------------------------------------
(* Line classifier and inline view builder.  The walk state st holds the   *)
(* locals of buildDiffViewFromLines.                                       *)

IsBlank(text) == Len(Trim(text)) = 0

deletedRecord_AnchoredAtCurrent(lineNumber, removed, anchorLine) ==
    [lineNumber         |-> lineNumber,
     type               |-> "deleted",
     originalLineNumber |-> removed.originalLineNumber,
     oldText            |-> removed.text,
     anchorLineNumber   |-> lineNumber]

\* the 'deleted' LineChange literal
deletedRecord(lineNumber, removed, anchorLine) ==
    [lineNumber         |-> lineNumber,
     type               |-> "deleted",
     originalLineNumber |-> removed.originalLineNumber,
     oldText            |-> removed.text,
     anchorLineNumber   |-> anchorLine]

modifiedRecord_Normalized(lineNumber, deleted, newText) ==
    [lineNumber         |-> lineNumber,
     type               |-> "modified",
     originalLineNumber |-> deleted.originalLineNumber,
     oldText            |-> deleted.normalized,
     newText            |-> newText]

\* the 'modified' LineChange literal of the inserted-run branch
modifiedRecord(lineNumber, deleted, newText) ==
    [lineNumber         |-> lineNumber,
     type               |-> "modified",
     originalLineNumber |-> deleted.originalLineNumber,
     oldText            |-> deleted.text,
     newText            |-> newText]

\* the 'added' LineChange literal
addedRecord(lineNumber, originalLineNumber, newText) ==
    [lineNumber         |-> lineNumber,
     type               |-> "added",
     originalLineNumber |-> originalLineNumber,
     newText            |-> newText]

flushPendingRemoved(st) ==
    IF Len(st.pendingRemoved) = 0 THEN st
    ELSE
      LET anchorLine == st.lastMatchedCurrentLine
          n == Len(st.pendingRemoved)
      IN  [st EXCEPT
             !.lineChanges = @ \o
                 [k \in 1..n |->
                     deletedRecord(st.currentLineNumber, st.pendingRemoved[k],
                                   anchorLine)],
             !.inlineLines = @ \o [k \in 1..n |-> st.pendingRemoved[k].text],
             !.inlineTypes = @ \o [k \in 1..n |-> "deleted"],
             !.pendingRemoved = <<>>]

\* change.removed branch
removedRun(st, originalLines_, originalNormalized, length) ==
    [st EXCEPT
       !.pendingRemoved = @ \o
           [k \in 1..length |->
               [text               |-> At(originalLines_, st.originalIndex + k - 1),
                normalized         |-> At(originalNormalized, st.originalIndex + k - 1),
                originalLineNumber |-> st.originalLineNumber + k - 1]],
       !.originalIndex = @ + length,
       !.originalLineNumber = @ + length]

emitAddedRun_AddedFirst(st, addedLines, pairing, length) ==
    LET pendingRemoved == st.pendingRemoved
        modifiedRecords ==
            [k \in 1..Len(pairing.pairedByAdded) |->
                LET addedIndex   == pairing.pairedByAdded[k][1]
                    deletedIndex == pairing.pairedByAdded[k][2]
                    deleted      == At(pendingRemoved, deletedIndex)
                IN  modifiedRecord(st.currentLineNumber + addedIndex, deleted,
                                   At(addedLines, addedIndex))]
        canSuppressBlankDeletes ==
            /\ Len(pendingRemoved) > 0
            /\ \A k \in 1..Len(pendingRemoved) : IsBlank(pendingRemoved[k].text)
            /\ Len(pendingRemoved) = Len(addedLines)
        deletedRecords ==
            Flatten([k \in 1..Len(pairing.unpairedDeleted) |->
                LET deleted == At(pendingRemoved, pairing.unpairedDeleted[k])
                IN  IF canSuppressBlankDeletes /\ IsBlank(deleted.text) THEN <<>>
                    ELSE <<deletedRecord(st.currentLineNumber, deleted,
                                         st.lastMatchedCurrentLine)>>])
        addedRecords ==
            [k \in 1..Len(pairing.unpairedAdded) |->
                addedRecord(st.currentLineNumber + pairing.unpairedAdded[k],
                            st.originalLineNumber,
                            At(addedLines, pairing.unpairedAdded[k]))]
        inlineDeleted ==
            IF canSuppressBlankDeletes
            THEN SelectSeq(pendingRemoved, LAMBDA removed : ~IsBlank(removed.text))
            ELSE pendingRemoved
    IN  [st EXCEPT
           !.lineChanges = @ \o modifiedRecords \o deletedRecords \o addedRecords,
           !.inlineLines = @ \o addedLines
                             \o [k \in 1..Len(inlineDeleted) |-> inlineDeleted[k].text],
           !.inlineTypes = @ \o [k \in 1..Len(addedLines) |-> "added"]
                             \o [k \in 1..Len(inlineDeleted) |-> "deleted"],
           !.pendingRemoved = <<>>,
           !.currentIndex = @ + length,
           !.currentLineNumber = @ + length]

emitAddedRun_SuppressAnyBlankDeletes(st, addedLines, pairing, length) ==
    LET pendingRemoved == st.pendingRemoved
        modifiedRecords ==
            [k \in 1..Len(pairing.pairedByAdded) |->
                LET addedIndex   == pairing.pairedByAdded[k][1]
                    deletedIndex == pairing.pairedByAdded[k][2]
                    deleted      == At(pendingRemoved, deletedIndex)
                IN  modifiedRecord(st.currentLineNumber + addedIndex, deleted,
                                   At(addedLines, addedIndex))]
        canSuppressBlankDeletes ==
            /\ Len(pendingRemoved) > 0
            /\ \A k \in 1..Len(pendingRemoved) : IsBlank(pendingRemoved[k].text)
        deletedRecords ==
            Flatten([k \in 1..Len(pairing.unpairedDeleted) |->
                LET deleted == At(pendingRemoved, pairing.unpairedDeleted[k])
                IN  IF canSuppressBlankDeletes /\ IsBlank(deleted.text) THEN <<>>
                    ELSE <<deletedRecord(st.currentLineNumber, deleted,
                                         st.lastMatchedCurrentLine)>>])
        addedRecords ==
            [k \in 1..Len(pairing.unpairedAdded) |->
                addedRecord(st.currentLineNumber + pairing.unpairedAdded[k],
                            st.originalLineNumber,
                            At(addedLines, pairing.unpairedAdded[k]))]
        inlineDeleted ==
            IF canSuppressBlankDeletes
            THEN SelectSeq(pendingRemoved, LAMBDA removed : ~IsBlank(removed.text))
            ELSE pendingRemoved
    IN  [st EXCEPT
           !.lineChanges = @ \o modifiedRecords \o deletedRecords \o addedRecords,
           !.inlineLines = @ \o [k \in 1..Len(inlineDeleted) |-> inlineDeleted[k].text]
                             \o addedLines,
           !.inlineTypes = @ \o [k \in 1..Len(inlineDeleted) |-> "deleted"]
                             \o [k \in 1..Len(addedLines) |-> "added"],
           !.pendingRemoved = <<>>,
           !.currentIndex = @ + length,
           !.currentLineNumber = @ + length]

\* change.added branch, after the pairing has been computed
emitAddedRun(st, addedLines, pairing, length) ==
    LET pendingRemoved == st.pendingRemoved
        modifiedRecords ==
            [k \in 1..Len(pairing.pairedByAdded) |->
                LET addedIndex   == pairing.pairedByAdded[k][1]
                    deletedIndex == pairing.pairedByAdded[k][2]
                    deleted      == At(pendingRemoved, deletedIndex)
                IN  modifiedRecord(st.currentLineNumber + addedIndex, deleted,
                                   At(addedLines, addedIndex))]
        canSuppressBlankDeletes ==
            /\ Len(pendingRemoved) > 0
            /\ \A k \in 1..Len(pendingRemoved) : IsBlank(pendingRemoved[k].text)
            /\ Len(pendingRemoved) = Len(addedLines)
        deletedRecords ==
            Flatten([k \in 1..Len(pairing.unpairedDeleted) |->
                LET deleted == At(pendingRemoved, pairing.unpairedDeleted[k])
                IN  IF canSuppressBlankDeletes /\ IsBlank(deleted.text) THEN <<>>
                    ELSE <<deletedRecord(st.currentLineNumber, deleted,
                                         st.lastMatchedCurrentLine)>>])
        addedRecords ==
            [k \in 1..Len(pairing.unpairedAdded) |->
                addedRecord(st.currentLineNumber + pairing.unpairedAdded[k],
                            st.originalLineNumber,
                            At(addedLines, pairing.unpairedAdded[k]))]
        inlineDeleted ==
            IF canSuppressBlankDeletes
            THEN SelectSeq(pendingRemoved, LAMBDA removed : ~IsBlank(removed.text))
            ELSE pendingRemoved
    IN  [st EXCEPT
           !.lineChanges = @ \o modifiedRecords \o deletedRecords \o addedRecords,
           !.inlineLines = @ \o [k \in 1..Len(inlineDeleted) |-> inlineDeleted[k].text]
                             \o addedLines,
           !.inlineTypes = @ \o [k \in 1..Len(inlineDeleted) |-> "deleted"]
                             \o [k \in 1..Len(addedLines) |-> "added"],
           !.pendingRemoved = <<>>,
           !.currentIndex = @ + length,
           !.currentLineNumber = @ + length]

\* change.added branch
addedRun(st, currentLines_, currentNormalized, length) ==
    emitAddedRun(st,
        Slice(currentLines_, st.currentIndex, st.currentIndex + length),
        pairLinesBySimilarity(
            st.pendingRemoved,
            Slice(currentLines_, st.currentIndex, st.currentIndex + length),
            Slice(currentNormalized, st.currentIndex, st.currentIndex + length)),
        length)

RECURSIVE equalWalk(_, _, _, _, _)
\* the while (offset < length) loop of the equal branch
equalWalk(st, originalLines_, currentLines_, offset, length) ==
    IF offset >= length THEN st
    ELSE IF At(originalLines_, st.originalIndex) = At(currentLines_, st.currentIndex) THEN
        equalWalk(
            [st EXCEPT
               !.inlineLines = Append(@, At(currentLines_, st.currentIndex)),
               !.inlineTypes = Append(@, "unchanged"),
               !.lineChanges = Append(@, [lineNumber         |-> st.currentLineNumber,
                                          type               |-> "unchanged",
                                          originalLineNumber |-> st.originalLineNumber]),
               !.originalIndex = @ + 1,
               !.currentIndex = @ + 1,
               !.originalLineNumber = @ + 1,
               !.lastMatchedCurrentLine = st.currentLineNumber,
               !.currentLineNumber = @ + 1],
            originalLines_, currentLines_, offset + 1, length)
    ELSE
        LET runLength ==
                CHOOSE n \in 1..(length - offset) :
                    /\ \A q \in 0..(n - 1) :
                           At(originalLines_, st.originalIndex + q)
                               # At(currentLines_, st.currentIndex + q)
                    /\ \/ n = length - offset
                       \/ At(originalLines_, st.originalIndex + n)
                              = At(currentLines_, st.currentIndex + n)
        IN  equalWalk(
                [st EXCEPT
                   !.inlineLines = @
                       \o [q \in 1..runLength |-> At(originalLines_, st.originalIndex + q - 1)]
                       \o [q \in 1..runLength |-> At(currentLines_, st.currentIndex + q - 1)],
                   !.inlineTypes = @ \o [q \in 1..runLength |-> "deleted"]
                                     \o [q \in 1..runLength |-> "added"],
                   !.lineChanges = @ \o
                       [q \in 1..runLength |->
                           [lineNumber         |-> st.currentLineNumber + q - 1,
                            type               |-> "modified",
                            originalLineNumber |-> st.originalLineNumber + q - 1,
                            oldText |-> At(originalLines_, st.originalIndex + q - 1),
                            newText |-> At(currentLines_, st.currentIndex + q - 1)]],
                   !.originalIndex = @ + runLength,
                   !.currentIndex = @ + runLength,
                   !.originalLineNumber = @ + runLength,
                   !.currentLineNumber = @ + runLength],
                originalLines_, currentLines_, offset + runLength, length)

RECURSIVE walkRuns(_, _, _, _)
\* arrayDiff.forEach(change => ...)
walkRuns(st, runs, originalLines_, currentLines_) ==
    IF runs = <<>> THEN st
    ELSE
      LET change == Head(runs)
          length == Len(change.value)
          originalNormalized ==
              [k \in 1..Len(originalLines_) |-> normalizeLineForMatch(originalLines_[k])]
          currentNormalized ==
              [k \in 1..Len(currentLines_) |-> normalizeLineForMatch(currentLines_[k])]
          next ==
              IF change.removed THEN
                  removedRun(st, originalLines_, originalNormalized, length)
              ELSE IF change.added THEN
                  addedRun(st, currentLines_, currentNormalized, length)
              ELSE
                  equalWalk(flushPendingRemoved(st), originalLines_, currentLines_,
                            0, length)
      IN  walkRuns(next, Tail(runs), originalLines_, currentLines_)

\* the locals of buildDiffViewFromLines before the walk
initialWalkState ==
    [lineChanges            |-> <<>>,
     inlineLines            |-> <<>>,
     inlineTypes            |-> <<>>,
     originalIndex          |-> 0,
     currentIndex           |-> 0,
     originalLineNumber     |-> 1,
     currentLineNumber      |-> 1,
     pendingRemoved         |-> <<>>,
     lastMatchedCurrentLine |-> 0]

\* return { lineChanges, inlineView: { content, lineTypes } }
viewOf(st) ==
    [lineChanges |-> st.lineChanges,
     inlineView  |-> [content   |-> Join(st.inlineLines),
                      lineTypes |-> st.inlineTypes]]

buildDiffViewFromLines(originalLines_, currentLines_) ==
    viewOf(flushPendingRemoved(
               walkRuns(initialWalkState, patienceDiff(originalLines_, currentLines_),
                        originalLines_, currentLines_)))

buildInlineViewFromContents(originalContent, currentContent) ==
    buildDiffViewFromLines(Split(originalContent), Split(currentContent)).inlineView

----------------------------------------------------------------------------
(* Change blocks (DiffCodeLensProvider).  An optional value is a sequence  *)
(* of length 0 (undefined) or 1.                                           *)

Undefined == <<>>

Some(x) == <<x>>

RECURSIVE insertByLineNumber(_, _)
\* insert c behind every element whose lineNumber is not larger (stable)
insertByLineNumber(sorted, c) ==
    IF sorted = <<>> THEN <<c>>
    ELSE IF Head(sorted).lineNumber <= c.lineNumber
      THEN <<Head(sorted)>> \o insertByLineNumber(Tail(sorted), c)
      ELSE <<c>> \o sorted

RECURSIVE sortByLineNumber(_)
\* changes.sort((a, b) => a.lineNumber - b.lineNumber)
sortByLineNumber(changes) ==
    IF changes = <<>> THEN <<>>
    ELSE insertByLineNumber(sortByLineNumber(SubSeq(changes, 1, Len(changes) - 1)),
                            changes[Len(changes)])

createBlock(changes, blockIndex) ==
    [startLine  |-> SetMin({changes[k].lineNumber : k \in 1..Len(changes)}),
     endLine    |-> SetMax({changes[k].lineNumber : k \in 1..Len(changes)}),
     type       |-> changes[1].type,
     changes    |-> changes,
     blockIndex |-> blockIndex]

RECURSIVE groupBlocks_NeverConsecutive(_, _, _, _, _)
groupBlocks_NeverConsecutive(changes, i, blocks, currentBlock, currentType) ==
    IF i >= Len(changes) THEN
        IF Len(currentBlock) > 0
        THEN Append(blocks, createBlock(currentBlock, Len(blocks)))
        ELSE blocks
    ELSE groupBlocks_NeverConsecutive(changes, i + 1,
                                      Append(blocks, createBlock(currentBlock, Len(blocks))),
                                      <<At(changes, i)>>, At(changes, i).type)

RECURSIVE groupBlocks(_, _, _, _, _)
\* the for-loop of getChangeBlocks from index i (0-based) on
groupBlocks(changes, i, blocks, currentBlock, currentType) ==
    IF i >= Len(changes) THEN
        IF Len(currentBlock) > 0
        THEN Append(blocks, createBlock(currentBlock, Len(blocks)))
        ELSE blocks
    ELSE
      LET change == At(changes, i)
          prevChange == At(changes, i - 1)
          isConsecutive == change.lineNumber <= prevChange.lineNumber + 1
          isSameType == change.type = currentType
      IN  IF isConsecutive /\ isSameType
          THEN groupBlocks(changes, i + 1, blocks, Append(currentBlock, change),
                           currentType)
          ELSE groupBlocks(changes, i + 1,
                           Append(blocks, createBlock(currentBlock, Len(blocks))),
                           <<change>>, change.type)

\* got is the (optional) result of diffTracker.getLineChanges(filePath)
getChangeBlocks(got) ==
    IF got = Undefined THEN <<>>
    ELSE IF Len(got[1]) = 0 THEN <<>>
    ELSE
      LET changes == sortByLineNumber(
                         SelectSeq(got[1], LAMBDA c : c.type # "unchanged"))
      IN  IF Len(changes) = 0 THEN <<>>
          ELSE groupBlocks(changes, 1, <<>>, <<changes[1]>>, changes[1].type)

----------------------------------------------------------------------------
(* Change store (class DiffTracker).  A Map is a function whose domain is  *)
(* the set of its keys; a tracker state s is the record of the five        *)
(* private fields.                                                         *)

EmptyMap == <<>>

MapSet(m, key, value) ==
    [x \in DOMAIN m \cup {key} |-> IF x = key THEN value ELSE m[x]]

MapDelete(m, key) == [x \in DOMAIN m \ {key} |-> m[x]]

MapGet(m, key) == IF key \in DOMAIN m THEN Some(m[key]) ELSE Undefined

Tracker ==
    [isRecording    |-> isRecording,
     fileSnapshots  |-> fileSnapshots,
     trackedChanges |-> trackedChanges,
     lineChanges    |-> lineChanges,
     inlineViews    |-> inlineViews]

\* an event of one of the two emitters; state is what a subscriber that
\* queries the tracker during the delivery gets to see
TrackChangesEvent(s) == [emitter |-> "onDidTrackChanges", state |-> s]

RecordingStateEvent(value) == [emitter |-> "onDidChangeRecordingState", value |-> value]

getCurrentContent(s, docs, filePath) ==
    IF filePath \in DOMAIN s.trackedChanges
    THEN Some(s.trackedChanges[filePath].currentContent)
    ELSE IF \E d \in DOMAIN docs : d.fsPath = filePath
      THEN Some(docs[CHOOSE d \in DOMAIN docs : d.fsPath = filePath])
      ELSE Undefined

diffViewOf_MissingBaselineAsEmpty(originalContent, currentContent) ==
    IF currentContent = Undefined THEN Undefined
    ELSE IF originalContent = Undefined
      THEN Some(buildDiffViewFromLines(Split(<<>>), Split(currentContent[1])))
      ELSE Some(buildDiffViewFromLines(Split(originalContent[1]), Split(currentContent[1])))

\* buildDiffView once both contents have been looked up
diffViewOf(originalContent, currentContent) ==
    IF originalContent = Undefined \/ currentContent = Undefined THEN Undefined
    ELSE Some(buildDiffViewFromLines(Split(originalContent[1]), Split(currentContent[1])))

buildDiffView(s, docs, filePath) ==
    diffViewOf(MapGet(s.fileSnapshots, filePath), getCurrentContent(s, docs, filePath))

\* calculateLineChanges once the view has been built
storeView(s, filePath, view) ==
    IF view = Undefined
    THEN [s EXCEPT !.lineChanges = MapDelete(@, filePath),
                   !.inlineViews = MapDelete(@, filePath)]
    ELSE [s EXCEPT !.lineChanges = MapSet(@, filePath, view[1].lineChanges),
                   !.inlineViews = MapSet(@, filePath, view[1].inlineView)]

calculateLineChanges(s, docs, filePath) ==
    storeView(s, filePath, buildDiffView(s, docs, filePath))

\* ensureInlineView when nothing is cached: [tracker, result]
cacheView(s, filePath, view) ==
    IF view = Undefined THEN [tracker |-> s, result |-> Undefined]
    ELSE [tracker |-> [s EXCEPT !.lineChanges = MapSet(@, filePath, view[1].lineChanges),
                                !.inlineViews = MapSet(@, filePath, view[1].inlineView)],
          result  |-> Some(view[1].inlineView)]

ensureInlineView(s, docs, filePath) ==
    IF filePath \in DOMAIN s.inlineViews
    THEN [tracker |-> s, result |-> Some(s.inlineViews[filePath])]
    ELSE cacheView(s, filePath, buildDiffView(s, docs, filePath))

\* the query getters
getIsRecording(s) == s.isRecording

getLineChanges(s, filePath) == MapGet(s.lineChanges, filePath)

getOriginalContent(s, filePath) == MapGet(s.fileSnapshots, filePath)

getInlineLineTypes(s, filePath) ==
    IF filePath \in DOMAIN s.inlineViews
    THEN Some(s.inlineViews[filePath].lineTypes)
    ELSE Undefined

getInlineView(s, docs, filePath) == ensureInlineView(s, docs, filePath).result

\* view.content of an optional view
contentOf(view) == IF view = Undefined THEN Undefined ELSE Some(view[1].content)

getInlineContent(s, docs, filePath) == contentOf(ensureInlineView(s, docs, filePath).result)

\* the tracked entries; sorted by timestamp in the source, a set here
getTrackedChanges(s) == {s.trackedChanges[filePath] : filePath \in DOMAIN s.trackedChanges}

\* onDocumentChanged, branch originalContent === currentContent
untrackFile(s, filePath) ==
    LET after == [s EXCEPT !.trackedChanges = MapDelete(@, filePath),
                           !.lineChanges = MapDelete(@, filePath),
                           !.inlineViews = MapDelete(@, filePath)]
    IN  [tracker |-> after, fired |-> <<TrackChangesEvent(after)>>]

\* the fire() that ends onDocumentChanged
fireTrackChanges(s) == [tracker |-> s, fired |-> <<TrackChangesEvent(s)>>]

trackFile_FireBeforeRecompute(s, docs, filePath, originalContent, currentContent) ==
    LET tracked == [s EXCEPT !.trackedChanges =
                        MapSet(@, filePath,
                               [filePath        |-> filePath,
                                originalContent |-> originalContent,
                                currentContent  |-> currentContent])]
    IN  [tracker |-> calculateLineChanges(tracked, docs, filePath),
         fired   |-> <<TrackChangesEvent(tracked)>>]

\* onDocumentChanged, branch originalContent !== currentContent
trackFile(s, docs, filePath, originalContent, currentContent) ==
    fireTrackChanges(
        calculateLineChanges(
            [s EXCEPT !.trackedChanges =
                MapSet(@, filePath,
                       [filePath        |-> filePath,
                        originalContent |-> originalContent,
                        currentContent  |-> currentContent])],
            docs, filePath))

captureBaseline_AlwaysEmpty(s, filePath, readResult) ==
    IF filePath \in DOMAIN s.fileSnapshots THEN s
    ELSE [s EXCEPT !.fileSnapshots = MapSet(@, filePath, <<>>)]

\* if (!this.fileSnapshots.has(filePath)) { try { readFileSync } catch { '' } }
captureBaseline(s, filePath, readResult) ==
    IF filePath \in DOMAIN s.fileSnapshots THEN s
    ELSE IF readResult = Undefined
      THEN [s EXCEPT !.fileSnapshots = MapSet(@, filePath, <<>>)]
      ELSE [s EXCEPT !.fileSnapshots = MapSet(@, filePath, readResult[1])]

\* onDocumentChanged behind its two guards, with the baseline captured
compareAndTrack(s, docs, filePath, currentContent) ==
    IF s.fileSnapshots[filePath] = currentContent
    THEN untrackFile(s, filePath)
    ELSE trackFile(s, docs, filePath, s.fileSnapshots[filePath], currentContent)

onDocumentChanged_Unguarded(s, docs, event, readResult) ==
    compareAndTrack(captureBaseline(s, event.document.uri.fsPath, readResult),
                    docs, event.document.uri.fsPath, event.document.text)

\* docs are the open documents after the edit, event.document is among them;
\* readResult is what fs.readFileSync gives: Undefined when it throws
onDocumentChanged(s, docs, event, readResult) ==
    IF ~s.isRecording THEN [tracker |-> s, fired |-> <<>>]
    ELSE IF event.document.uri.scheme # "file" THEN [tracker |-> s, fired |-> <<>>]
    ELSE compareAndTrack(captureBaseline(s, event.document.uri.fsPath, readResult),
                         docs, event.document.uri.fsPath, event.document.text)

startRecording(s, docs) ==
    [isRecording    |-> TRUE,
     fileSnapshots  |-> [path \in {d.fsPath : d \in {d \in DOMAIN docs : d.scheme = "file"}} |->
                            docs[CHOOSE d \in DOMAIN docs :
                                     d.scheme = "file" /\ d.fsPath = path]],
     trackedChanges |-> EmptyMap,
     lineChanges    |-> EmptyMap,
     inlineViews    |-> EmptyMap]

stopRecording_EndsSession(s) ==
    [s EXCEPT !.isRecording = FALSE,
              !.trackedChanges = EmptyMap,
              !.lineChanges = EmptyMap,
              !.inlineViews = EmptyMap]

stopRecording(s) == [s EXCEPT !.isRecording = FALSE]

clearDiffs_KeepsInlineViews(s) ==
    [s EXCEPT !.trackedChanges = EmptyMap,
              !.lineChanges = EmptyMap]

clearDiffs(s) ==
    [s EXCEPT !.trackedChanges = EmptyMap,
              !.lineChanges = EmptyMap,
              !.inlineViews = EmptyMap]

----------------------------------------------------------------------------
(* Operations on the change store *)

SetTracker(s) ==
    /\ isRecording' = s.isRecording
    /\ fileSnapshots' = s.fileSnapshots
    /\ trackedChanges' = s.trackedChanges
    /\ lineChanges' = s.lineChanges
    /\ inlineViews' = s.inlineViews

\* the store of a freshly constructed DiffTracker, no document open
StoreIdle ==
    /\ isRecording = FALSE
    /\ fileSnapshots = EmptyMap
    /\ trackedChanges = EmptyMap
    /\ lineChanges = EmptyMap
    /\ inlineViews = EmptyMap
    /\ textDocuments = EmptyMap
    /\ lastEvent = Undefined
    /\ fired = <<>>
    /\ sinceClear = FALSE
    /\ revert = Undefined

\* no diff view built yet
NoView == [lineChanges |-> <<>>, inlineView |-> [content |-> <<>>, lineTypes |-> <<>>]]

DiffIdle ==
    /\ originalLines = <<>>
    /\ currentLines = <<>>
    /\ arrayDiff = <<>>
    /\ diffView = NoView
    /\ changeBlocks = <<>>
    /\ pc = "store"

InitStore ==
    /\ DiffIdle
    /\ isRecording = FALSE
    /\ fileSnapshots = EmptyMap
    /\ trackedChanges = EmptyMap
    /\ lineChanges = EmptyMap
    /\ inlineViews = EmptyMap
    /\ \E open \in SUBSET Documents : textDocuments \in [open -> StoreContents]
    /\ lastEvent = Undefined
    /\ fired = <<>>
    /\ sinceClear = FALSE
    /\ revert = Undefined

\* vscode.Uri.file(change.filePath)
FileUri(filePath) == [scheme |-> "file", fsPath |-> filePath]

\* vscode.workspace.openTextDocument: the open document, else one loaded
\* from the disk
openTextDocument(docs, uri, diskText) ==
    IF uri \in DOMAIN docs THEN docs ELSE MapSet(docs, uri, diskText)

\* doc.lineAt(doc.lineCount - 1).range.end
fullRangeEnd(text) ==
    [line      |-> Len(Split(text)) - 1,
     character |-> Len(Split(text)[Len(Split(text))])]

\* offset of a position in a text, the position clamped to the text
RECURSIVE offsetAt(_, _, _)
offsetAt(lines, line, character) ==
    IF line >= Len(lines) THEN Len(Join(lines))
    ELSE IF line = 0 THEN Min2(character, Len(lines[1]))
    ELSE Len(lines[1]) + 1 + offsetAt(Tail(lines), line - 1, character)

\* edit.replace(uri, fullRange, newText), as applied to the text the
\* document has when the edit arrives
replaceRange(text, rangeEnd, newText) ==
    newText \o SubSeq(text, offsetAt(Split(text), rangeEnd.line, rangeEnd.character) + 1,
                      Len(text))

\* the text the document of an in-flight revert gets from the edit
editedText(docs, call) ==
    replaceRange(docs[FileUri(call.filePath)], call.rangeEnd, call.change.originalContent)

\* a revertFile call that has returned: its result, whether the edit put
\* the baseline in the document, whether the notification of the edit
\* changed the maps of the tracker
RevertReturned(filePath, result, replaced, touched) ==
    [pc |-> "returned", filePath |-> filePath, result |-> result,
     replaced |-> replaced, touched |-> touched]

\* a revertFile call that has not returned stays where it is while another
\* operation runs; the record of a returned call is dropped
InFlight == revert # Undefined /\ revert[1].pc # "returned"

KeepInFlight == revert' = IF InFlight THEN revert ELSE Undefined

StartRecording ==
    /\ SetTracker(startRecording(Tracker, textDocuments))
    /\ fired' = <<RecordingStateEvent(TRUE)>>
    /\ lastEvent' = Undefined
    /\ sinceClear' = FALSE
    /\ KeepInFlight
    /\ UNCHANGED textDocuments
    /\ UNCHANGED diffVars

StopRecording ==
    /\ SetTracker(stopRecording(Tracker))
    /\ fired' = <<RecordingStateEvent(FALSE)>>
    /\ lastEvent' = Undefined
    /\ sinceClear' = FALSE
    /\ KeepInFlight
    /\ UNCHANGED textDocuments
    /\ UNCHANGED diffVars

ClearDiffs ==
    /\ SetTracker(clearDiffs(Tracker))
    /\ fired' = <<TrackChangesEvent(clearDiffs(Tracker))>>
    /\ lastEvent' = Undefined
    /\ sinceClear' = TRUE
    /\ KeepInFlight
    /\ UNCHANGED textDocuments
    /\ UNCHANGED diffVars

\* what the handler got from the disk: Undefined when it did not read,
\* else the outcome of readFileSync
diskRead(s, event, readResult) ==
    IF /\ s.isRecording
       /\ event.document.uri.scheme = "file"
       /\ event.document.uri.fsPath \notin DOMAIN s.fileSnapshots
    THEN Some(readResult)
    ELSE Undefined

\* the outcome of one run of the handler becomes the next state
HandlerOutcome(outcome) ==
    /\ SetTracker(outcome.tracker)
    /\ fired' = outcome.fired

\* the editor changes document doc to text and notifies the tracker
DocumentChanged(doc) ==
    \E text \in StoreContents, readResult \in {Undefined} \cup {Some(c) : c \in StoreContents} :
        /\ diskRead(Tracker, [document |-> [uri |-> doc, text |-> text]], Undefined) = Undefined
               => readResult = Undefined
        /\ textDocuments' = MapSet(textDocuments, doc, text)
        /\ lastEvent' = Some([document     |-> [uri |-> doc, text |-> text],
                              wasRecording |-> isRecording,
                              read         |-> diskRead(Tracker,
                                                        [document |-> [uri |-> doc, text |-> text]],
                                                        readResult)])
        /\ HandlerOutcome(
               onDocumentChanged(Tracker, MapSet(textDocuments, doc, text),
                                 [document |-> [uri |-> doc, text |-> text]],
                                 readResult))
        /\ sinceClear' = FALSE
        /\ KeepInFlight
        /\ UNCHANGED diffVars

OnDocumentChanged == \E doc \in Documents : DocumentChanged(doc)

\* getInlineView / getInlineContent of a presentation collaborator
InlineViewOf(filePath) ==
        /\ SetTracker(ensureInlineView(Tracker, textDocuments, filePath).tracker)
        /\ fired' = <<>>
        /\ lastEvent' = Undefined
        /\ KeepInFlight
        /\ UNCHANGED <<textDocuments, sinceClear>>
        /\ UNCHANGED diffVars

GetInlineView == \E filePath \in Paths : InlineViewOf(filePath)

\* revertFile(filePath) up to its first await: without a tracked entry it
\* returns false, else it asks for the document
RevertFile ==
    \E filePath \in RevertPaths :
        /\ ~InFlight
        /\ revert' = IF filePath \in DOMAIN trackedChanges
                     THEN Some([pc       |-> "opening",
                                filePath |-> filePath,
                                change   |-> trackedChanges[filePath]])
                     ELSE Some(RevertReturned(filePath, FALSE, FALSE, FALSE))
        /\ fired' = <<>>
        /\ lastEvent' = Undefined
        /\ sinceClear' = FALSE
        /\ UNCHANGED <<trackerVars, textDocuments>>
        /\ UNCHANGED diffVars

\* openTextDocument settles: it throws, or it gives the document, whose
\* full range is computed and handed to applyEdit
RevertOpenTextDocument ==
    /\ InFlight
    /\ revert[1].pc = "opening"
    /\ \E opened \in BOOLEAN, diskText \in StoreContents :
           /\ opened \/ diskText = <<>>
           /\ diskText = <<>> \/ FileUri(revert[1].filePath) \notin DOMAIN textDocuments
           /\ textDocuments' = IF opened
                                THEN openTextDocument(textDocuments, FileUri(revert[1].filePath), diskText)
                                ELSE textDocuments
           /\ revert' = IF opened
                         THEN Some([pc       |-> "applying",
                                    filePath |-> revert[1].filePath,
                                    change   |-> revert[1].change,
                                    rangeEnd |-> fullRangeEnd(
                                        openTextDocument(textDocuments,
                                                         FileUri(revert[1].filePath),
                                                         diskText)[FileUri(revert[1].filePath)])])
                         ELSE Some(RevertReturned(revert[1].filePath, FALSE, FALSE, FALSE))
    /\ fired' = <<>>
    /\ lastEvent' = Undefined
    /\ sinceClear' = FALSE
    /\ UNCHANGED trackerVars
    /\ UNCHANGED diffVars

\* applyEdit settles: it reports failure, or the range of the document is
\* replaced by the baseline and the tracker is notified of the change
RevertApplyEditWithin(maxLen) ==
    /\ InFlight
    /\ revert[1].pc = "applying"
    /\ \E success \in BOOLEAN :
           IF success
           THEN /\ Len(editedText(textDocuments, revert[1])) <= maxLen
                /\ textDocuments' = MapSet(textDocuments, FileUri(revert[1].filePath),
                                           editedText(textDocuments, revert[1]))
                /\ lastEvent' = Some([document     |-> [uri  |-> FileUri(revert[1].filePath),
                                                        text |-> editedText(textDocuments, revert[1])],
                                      wasRecording |-> isRecording,
                                      read         |-> Undefined])
                /\ HandlerOutcome(
                       onDocumentChanged(
                           Tracker,
                           MapSet(textDocuments, FileUri(revert[1].filePath),
                                  editedText(textDocuments, revert[1])),
                           [document |-> [uri  |-> FileUri(revert[1].filePath),
                                          text |-> editedText(textDocuments, revert[1])]],
                           Undefined))
                /\ revert' = Some([pc       |-> "saving",
                                   filePath |-> revert[1].filePath,
                                   change   |-> revert[1].change,
                                   replaced |-> editedText(textDocuments, revert[1])
                                                    = revert[1].change.originalContent,
                                   touched  |->
                                       onDocumentChanged(
                                           Tracker,
                                           MapSet(textDocuments, FileUri(revert[1].filePath),
                                                  editedText(textDocuments, revert[1])),
                                           [document |-> [uri  |-> FileUri(revert[1].filePath),
                                                          text |-> editedText(textDocuments, revert[1])]],
                                           Undefined).tracker # Tracker])
           ELSE /\ revert' = Some(RevertReturned(revert[1].filePath, FALSE, FALSE, FALSE))
                /\ fired' = <<>>
                /\ lastEvent' = Undefined
                /\ UNCHANGED <<trackerVars, textDocuments>>
    /\ sinceClear' = FALSE
    /\ UNCHANGED diffVars

RevertApplyEdit == RevertApplyEditWithin(MaxTextLen)

\* doc.save() settles: it throws, or the entries of the path are deleted,
\* the change event is fired and revertFile returns true
RevertSave ==
    /\ InFlight
    /\ revert[1].pc = "saving"
    /\ \E saved \in BOOLEAN :
           IF saved
           THEN /\ HandlerOutcome(untrackFile(Tracker, revert[1].filePath))
                /\ revert' = Some(RevertReturned(revert[1].filePath, TRUE,
                                                 revert[1].replaced, revert[1].touched))
           ELSE /\ revert' = Some(RevertReturned(revert[1].filePath, FALSE,
                                                 revert[1].replaced, revert[1].touched))
                /\ fired' = <<>>
                /\ UNCHANGED trackerVars
    /\ lastEvent' = Undefined
    /\ sinceClear' = FALSE
    /\ UNCHANGED textDocuments
    /\ UNCHANGED diffVars

\* Array.from(this.trackedChanges.values())
trackedValues(s) ==
    LET paths == DOMAIN s.trackedChanges
        order == CHOOSE seq \in [1..Cardinality(paths) -> paths] :
                     \A j, k \in 1..Cardinality(paths) : seq[j] = seq[k] => j = k
    IN  [k \in 1..Cardinality(paths) |-> s.trackedChanges[order[k]]]

\* a revertAllChanges call that has returned its count
RevertAllReturned(revertedCount) ==
    [pc |-> "returned", op |-> "revertAllChanges", result |-> revertedCount]

\* the loop of revertAllChanges goes on to the changes left, asking for the
\* document of the first of them; after the last one clearDiffs runs and
\* the count is returned
RevertAllNext(s, changes, revertedCount) ==
    IF changes # <<>>
    THEN /\ SetTracker(s)
         /\ fired' = <<>>
         /\ sinceClear' = FALSE
         /\ revert' = Some([pc            |-> "all:opening",
                            filePath      |-> Head(changes).filePath,
                            change        |-> Head(changes),
                            remaining     |-> Tail(changes),
                            revertedCount |-> revertedCount])
    ELSE /\ SetTracker(clearDiffs(s))
         /\ fired' = <<TrackChangesEvent(clearDiffs(s))>>
         /\ sinceClear' = TRUE
         /\ revert' = Some(RevertAllReturned(revertedCount))

\* revertAllChanges() up to its first await
RevertAllChanges ==
    /\ ~InFlight
    /\ RevertAllNext(Tracker, trackedValues(Tracker), 0)
    /\ lastEvent' = Undefined
    /\ UNCHANGED textDocuments
    /\ UNCHANGED diffVars

\* openTextDocument settles in the loop: it throws and the catch goes on
\* with the next change, or it gives the document
RevertAllOpenTextDocument ==
    /\ InFlight
    /\ revert[1].pc = "all:opening"
    /\ \E opened \in BOOLEAN, diskText \in StoreContents :
           /\ opened \/ diskText = <<>>
           /\ diskText = <<>> \/ FileUri(revert[1].filePath) \notin DOMAIN textDocuments
           /\ IF opened
              THEN /\ textDocuments' = openTextDocument(textDocuments,
                                                        FileUri(revert[1].filePath), diskText)
                   /\ revert' = Some([pc            |-> "all:applying",
                                      filePath      |-> revert[1].filePath,
                                      change        |-> revert[1].change,
                                      remaining     |-> revert[1].remaining,
                                      revertedCount |-> revert[1].revertedCount,
                                      rangeEnd      |-> fullRangeEnd(
                                          openTextDocument(textDocuments,
                                                           FileUri(revert[1].filePath),
                                                           diskText)[FileUri(revert[1].filePath)])])
                   /\ fired' = <<>>
                   /\ sinceClear' = FALSE
                   /\ UNCHANGED trackerVars
              ELSE /\ RevertAllNext(Tracker, revert[1].remaining, revert[1].revertedCount)
                   /\ UNCHANGED textDocuments
    /\ lastEvent' = Undefined
    /\ UNCHANGED diffVars

\* applyEdit settles in the loop: it reports failure, or the range of the
\* document is replaced by the baseline and the tracker is notified
RevertAllApplyEdit ==
    /\ InFlight
    /\ revert[1].pc = "all:applying"
    /\ \E success \in BOOLEAN :
           IF success
           THEN /\ Len(editedText(textDocuments, revert[1])) <= MaxSessionTextLen
                /\ textDocuments' = MapSet(textDocuments, FileUri(revert[1].filePath),
                                           editedText(textDocuments, revert[1]))
                /\ lastEvent' = Some([document     |-> [uri  |-> FileUri(revert[1].filePath),
                                                        text |-> editedText(textDocuments, revert[1])],
                                      wasRecording |-> isRecording,
                                      read         |-> Undefined])
                /\ HandlerOutcome(
                       onDocumentChanged(
                           Tracker,
                           MapSet(textDocuments, FileUri(revert[1].filePath),
                                  editedText(textDocuments, revert[1])),
                           [document |-> [uri  |-> FileUri(revert[1].filePath),
                                          text |-> editedText(textDocuments, revert[1])]],
                           Undefined))
                /\ sinceClear' = FALSE
                /\ revert' = Some([pc            |-> "all:saving",
                                   filePath      |-> revert[1].filePath,
                                   change        |-> revert[1].change,
                                   remaining     |-> revert[1].remaining,
                                   revertedCount |-> revert[1].revertedCount])
           ELSE /\ RevertAllNext(Tracker, revert[1].remaining, revert[1].revertedCount)
                /\ lastEvent' = Undefined
                /\ UNCHANGED textDocuments
    /\ UNCHANGED diffVars

\* doc.save() settles in the loop: it throws, or the count goes up
RevertAllSave ==
    /\ InFlight
    /\ revert[1].pc = "all:saving"
    /\ \E saved \in BOOLEAN :
           RevertAllNext(Tracker, revert[1].remaining,
                         IF saved THEN revert[1].revertedCount + 1
                         ELSE revert[1].revertedCount)
    /\ lastEvent' = Undefined
    /\ UNCHANGED textDocuments
    /\ UNCHANGED diffVars

NextStore ==
    \/ StartRecording
    \/ StopRecording
    \/ ClearDiffs
    \/ OnDocumentChanged
    \/ GetInlineView

----------------------------------------------------------------------------
(* Block operations revertBlock and keepBlock.  The commands are issued by *)
(* the CodeLens provider; what they do is taken from the change store's    *)
(* block mutation contract.                                                *)

\* the lines of the document with the effect of one block undone
revertedLines(lines, block) ==
    IF block.type = "added"
    THEN Flatten([i \in 1..Len(lines) |->
                     IF \E k \in 1..Len(block.changes) : block.changes[k].lineNumber = i
                     THEN <<>> ELSE <<lines[i]>>])
    ELSE IF block.type = "modified"
    THEN [i \in 1..Len(lines) |->
             IF \E k \in 1..Len(block.changes) : block.changes[k].lineNumber = i
             THEN block.changes[CHOOSE k \in 1..Len(block.changes) :
                                    block.changes[k].lineNumber = i].oldText
             ELSE lines[i]]
    ELSE SubSeq(lines, 1, Min2(block.changes[1].anchorLineNumber, Len(lines)))
             \o [k \in 1..Len(block.changes) |-> block.changes[k].oldText]
             \o SubSeq(lines, Min2(block.changes[1].anchorLineNumber, Len(lines)) + 1, Len(lines))

\* the lines of the baseline with the content of one block accepted
keptLines(lines, block) ==
    IF block.type = "deleted"
    THEN Flatten([i \in 1..Len(lines) |->
                     IF \E k \in 1..Len(block.changes) : block.changes[k].originalLineNumber = i
                     THEN <<>> ELSE <<lines[i]>>])
    ELSE IF block.type = "modified"
    THEN [i \in 1..Len(lines) |->
             IF \E k \in 1..Len(block.changes) : block.changes[k].originalLineNumber = i
             THEN block.changes[CHOOSE k \in 1..Len(block.changes) :
                                    block.changes[k].originalLineNumber = i].newText
             ELSE lines[i]]
    ELSE SubSeq(lines, 1, Min2(block.changes[1].originalLineNumber - 1, Len(lines)))
             \o [k \in 1..Len(block.changes) |-> block.changes[k].newText]
             \o SubSeq(lines, Min2(block.changes[1].originalLineNumber - 1, Len(lines)) + 1,
                       Len(lines))

\* the tracker after the baseline of filePath was adjusted: the diff
\* against the live content is recomputed and the change event fired
rebaseline(s, docs, filePath, baseline) ==
    compareAndTrack([s EXCEPT !.fileSnapshots = MapSet(@, filePath, baseline)],
                    docs, filePath, docs[FileUri(filePath)])

\* a revertBlock or keepBlock call that has returned
BlockReturned(op, filePath, index, result) ==
    [pc |-> "returned", op |-> op, filePath |-> filePath, index |-> index,
     result |-> result]

\* revertBlock(filePath, index) against the block list it has recomputed
RevertBlockOf(filePath, index, blocks) ==
    IF index < 0 \/ index >= Len(blocks)
    THEN /\ revert' = Some(BlockReturned("revertBlock", filePath, index, FALSE))
         /\ fired' = <<>>
         /\ lastEvent' = Undefined
         /\ UNCHANGED <<trackerVars, textDocuments>>
    ELSE /\ Len(Join(revertedLines(Split(textDocuments[FileUri(filePath)]),
                                   At(blocks, index)))) <= MaxTextLen
         /\ revert' = Some(BlockReturned("revertBlock", filePath, index, TRUE))
         /\ textDocuments' =
                MapSet(textDocuments, FileUri(filePath),
                       Join(revertedLines(Split(textDocuments[FileUri(filePath)]),
                                          At(blocks, index))))
         /\ lastEvent' =
                Some([document     |->
                          [uri  |-> FileUri(filePath),
                           text |-> Join(revertedLines(Split(textDocuments[FileUri(filePath)]),
                                                       At(blocks, index)))],
                      wasRecording |-> isRecording,
                      read         |-> Undefined])
         /\ HandlerOutcome(
                onDocumentChanged(
                    Tracker,
                    MapSet(textDocuments, FileUri(filePath),
                           Join(revertedLines(Split(textDocuments[FileUri(filePath)]),
                                              At(blocks, index)))),
                    [document |->
                         [uri  |-> FileUri(filePath),
                          text |-> Join(revertedLines(Split(textDocuments[FileUri(filePath)]),
                                                      At(blocks, index)))]],
                    Undefined))

RevertBlock ==
    \E filePath \in RevertPaths, index \in BlockIndices :
        /\ RevertBlockOf(filePath, index, getChangeBlocks(getLineChanges(Tracker, filePath)))
        /\ sinceClear' = FALSE
        /\ UNCHANGED diffVars

\* keepBlock(filePath, index) against the block list it has recomputed
KeepBlockOf(filePath, index, blocks) ==
    IF index < 0 \/ index >= Len(blocks)
    THEN /\ revert' = Some(BlockReturned("keepBlock", filePath, index, FALSE))
         /\ fired' = <<>>
         /\ UNCHANGED trackerVars
    ELSE /\ Len(Join(keptLines(Split(fileSnapshots[filePath]), At(blocks, index)))) <= MaxTextLen
         /\ revert' = Some(BlockReturned("keepBlock", filePath, index, TRUE))
         /\ HandlerOutcome(
                rebaseline(Tracker, textDocuments, filePath,
                           Join(keptLines(Split(fileSnapshots[filePath]), At(blocks, index)))))

KeepBlock ==
    \E filePath \in RevertPaths, index \in BlockIndices :
        /\ KeepBlockOf(filePath, index, getChangeBlocks(getLineChanges(Tracker, filePath)))
        /\ lastEvent' = Undefined
        /\ sinceClear' = FALSE
        /\ UNCHANGED textDocuments
        /\ UNCHANGED diffVars

\* the operations on one file document, the block operations among them
NextBlocks ==
    \/ StartRecording
    \/ StopRecording
    \/ DocumentChanged(FileDoc1)
    \/ RevertBlock
    \/ KeepBlock

\* one open file document and the tracker as constructed
InitRevert ==
    /\ DiffIdle
    /\ isRecording = FALSE
    /\ fileSnapshots = EmptyMap
    /\ trackedChanges = EmptyMap
    /\ lineChanges = EmptyMap
    /\ inlineViews = EmptyMap
    /\ textDocuments \in [{FileDoc1} -> StoreContents]
    /\ lastEvent = Undefined
    /\ fired = <<>>
    /\ sinceClear = FALSE
    /\ revert = Undefined

\* the operations on one file document, revertFile among them
NextRevert ==
    \/ StartRecording
    \/ StopRecording
    \/ ClearDiffs
    \/ DocumentChanged(FileDoc1)
    \/ InlineViewOf(FileDoc1.fsPath)
    \/ RevertFile
    \/ RevertOpenTextDocument
    \/ RevertApplyEdit
    \/ RevertSave

\* the operations on one file document, revertFile and revertAllChanges
\* among them; one revert call is in flight at a time
NextSession ==
    \/ StartRecording
    \/ StopRecording
    \/ ClearDiffs
    \/ DocumentChanged(FileDoc1)
    \/ InlineViewOf(FileDoc1.fsPath)
    \/ RevertFile
    \/ RevertOpenTextDocument
    \/ RevertApplyEditWithin(MaxSessionTextLen)
    \/ RevertSave
    \/ RevertAllChanges
    \/ RevertAllOpenTextDocument
    \/ RevertAllApplyEdit
    \/ RevertAllSave

SpecSession == InitRevert /\ [][NextSession]_vars

SpecRevert == InitRevert /\ [][NextRevert]_vars

SpecBlocks == InitRevert /\ [][NextBlocks]_vars

SpecStore == InitStore /\ [][NextStore]_vars

----------------------------------------------------------------------------
(* Pipeline over one pair of line sequences *)

\* the line sequences that String.prototype.split can produce
IsSplitImage(lines) == Split(Join(lines)) = lines

InitDiff ==
    /\ originalLines \in SeqsUpTo(DiffLines, MaxLines)
    /\ currentLines \in SeqsUpTo(DiffLines, MaxLines)
    /\ arrayDiff = <<>>
    /\ diffView = NoView
    /\ changeBlocks = <<>>
    /\ pc = "input"
    /\ StoreIdle

PatienceDiff ==
    /\ pc = "input"
    /\ arrayDiff' = patienceDiff(originalLines, currentLines)
    /\ pc' = "aligned"
    /\ UNCHANGED <<originalLines, currentLines, diffView, changeBlocks>>
    /\ UNCHANGED storeVars

\* buildInlineViewFromContents / buildDiffView on the contents whose lines
\* are originalLines and currentLines
BuildDiffView ==
    /\ pc = "aligned"
    /\ IsSplitImage(originalLines)
    /\ IsSplitImage(currentLines)
    /\ diffView' = buildDiffViewFromLines(Split(Join(originalLines)),
                                          Split(Join(currentLines)))
    /\ pc' = "built"
    /\ UNCHANGED <<originalLines, currentLines, arrayDiff, changeBlocks>>
    /\ UNCHANGED storeVars

GetChangeBlocks ==
    /\ pc = "built"
    /\ changeBlocks' = getChangeBlocks(Some(diffView.lineChanges))
    /\ pc' = "blocks"
    /\ UNCHANGED <<originalLines, currentLines, arrayDiff, diffView>>
    /\ UNCHANGED storeVars

NextDiff == PatienceDiff \/ BuildDiffView \/ GetChangeBlocks

\* one document of up to MaxPairLong lines against one of up to MaxPairShort
InitPair ==
    /\ \E long \in SeqsUpTo(PairLongLines, MaxPairLong),
          short \in SeqsUpTo(PairShortLines, MaxPairShort) :
           \/ originalLines = long /\ currentLines = short
           \/ originalLines = short /\ currentLines = long
    /\ arrayDiff = <<>>
    /\ diffView = NoView
    /\ changeBlocks = <<>>
    /\ pc = "input"
    /\ StoreIdle

SpecPair == InitPair /\ [][NextDiff]_vars

\* one removed line against an inserted run of two equal lines, so that the
\* region is paired by similarity
InitScore ==
    /\ \E deleted \in SeqsUpTo(ScoreChars, MaxScoreLen),
          addedLine \in SeqsUpTo(ScoreChars, MaxScoreLen) :
           /\ originalLines = <<deleted>>
           /\ currentLines = <<addedLine, addedLine>>
    /\ arrayDiff = <<>>
    /\ diffView = NoView
    /\ changeBlocks = <<>>
    /\ pc = "input"
    /\ StoreIdle

SpecScore == InitScore /\ [][NextDiff]_vars

\* one baseline line with comment markers against two fixed lines
InitMarker ==
    /\ originalLines \in {<<input>> : input \in SeqsUpTo(MarkerChars, MaxMarkerLen)}
    /\ currentLines = <<<<"x">>, <<"x">>>>
    /\ arrayDiff = <<>>
    /\ diffView = NoView
    /\ changeBlocks = <<>>
    /\ pc = "input"
    /\ StoreIdle

SpecMarker == InitMarker /\ [][NextDiff]_vars

\* two documents whose sub-ranges are the inputs of findAnchors and of
\* positionalDiff
InitRanges ==
    /\ originalLines \in SeqsUpTo(RangeLines, MaxRangeLines)
    /\ currentLines \in SeqsUpTo(RangeLines, MaxRangeLines)
    /\ arrayDiff = <<>>
    /\ diffView = NoView
    /\ changeBlocks = <<>>
    /\ pc = "input"
    /\ StoreIdle

SpecRanges == InitRanges /\ [][NextDiff]_vars

Init == InitDiff

Next == NextDiff

Spec == Init /\ [][Next]_vars

----------------------------------------------------------------------------
(* Properties of the aligner *)

Aligned == pc \in {"aligned", "built", "blocks"}

Built == pc \in {"built", "blocks"}

RunKind(r) == IF r.added THEN "inserted" ELSE IF r.removed THEN "deleted" ELSE "equal"

RunLinesNot(runs, kind) ==
    Flatten([k \in 1..Len(runs) |->
                IF RunKind(runs[k]) = kind THEN <<>> ELSE runs[k].value])

RunKinds(runs) == {RunKind(runs[k]) : k \in 1..Len(runs)}

TopAnchors ==
    findAnchors(originalLines,
                findUniqueLineIndices(originalLines, 0, Len(originalLines)),
                currentLines,
                findUniqueLineIndices(currentLines, 0, Len(currentLines)))

\* C1: the runs that are not inserted concatenate to old, the runs that are
\* not deleted concatenate to new.
C1_Coverage ==
    Aligned =>
        /\ RunLinesNot(arrayDiff, "inserted") = originalLines
        /\ RunLinesNot(arrayDiff, "deleted") = currentLines

\* an alignment through an anchor with a deleted and an inserted run
C1_Witness ==
    /\ Aligned
    /\ Len(TopAnchors) > 0
    /\ RunKinds(arrayDiff) = {"equal", "inserted", "deleted"}

\* C3: no run of the aligner's output is empty and no two consecutive runs
\* have the same kind.
C3_NoAdjacentSameKind ==
    Aligned =>
        \A k \in 1..Len(arrayDiff) :
            /\ Len(arrayDiff[k].value) > 0
            /\ k < Len(arrayDiff) => RunKind(arrayDiff[k]) # RunKind(arrayDiff[k + 1])

\* two anchors whose single-line runs were merged into one equal run next
\* to a changed run
C3_Witness ==
    /\ Aligned
    /\ Len(TopAnchors) >= 2
    /\ Len(arrayDiff) >= 2
    /\ \E k \in 1..Len(arrayDiff) :
           RunKind(arrayDiff[k]) = "equal" /\ Len(arrayDiff[k].value) >= 2

\* C4: aligning a non-empty sequence with itself gives exactly one equal run
\* holding the whole sequence.
C4_Idempotence ==
    (Aligned /\ originalLines = currentLines /\ Len(originalLines) > 0) =>
        arrayDiff = <<EqualRun(originalLines)>>

\* a sequence with a repeated line and a unique line aligned with itself
C4_Witness ==
    /\ Aligned
    /\ originalLines = currentLines
    /\ Len(originalLines) >= 3
    /\ Cardinality({originalLines[k] : k \in 1..Len(originalLines)}) = 2
    /\ Len(arrayDiff) = 1

----------------------------------------------------------------------------
(* Properties of the classifier and the inline view *)

LineChangesOfView == diffView.lineChanges

RecordsOfType(type) ==
    SelectSeq(LineChangesOfView, LAMBDA r : r.type = type)

\* the lines of the inline view whose lineType is not the given one
InlineLinesNot(view, lineType) ==
    Flatten([k \in 1..Len(view.lineTypes) |->
                IF view.lineTypes[k] = lineType THEN <<>>
                ELSE <<Split(view.content)[k]>>])

\* C2: the inline view without its added lines is the baseline, and without
\* its deleted lines is the current content.
C2_InlineRoundTrip ==
    Built =>
        /\ InlineLinesNot(diffView.inlineView, "added") = originalLines
        /\ InlineLinesNot(diffView.inlineView, "deleted") = currentLines

\* C5: every deleted, modified and added record carries the line numbers of
\* its kind and the raw texts of the lines at those numbers.
C5_RecordsCarryTrueTexts ==
    Built =>
        \A k \in 1..Len(LineChangesOfView) :
            LET r == LineChangesOfView[k]
            IN  /\ r.type \in {"deleted", "modified"} =>
                    /\ {"originalLineNumber", "oldText"} \subseteq DOMAIN r
                    /\ r.originalLineNumber \in 1..Len(originalLines)
                    /\ r.oldText = originalLines[r.originalLineNumber]
                /\ r.type \in {"added", "modified"} =>
                    /\ {"lineNumber", "newText"} \subseteq DOMAIN r
                    /\ r.lineNumber \in 1..Len(currentLines)
                    /\ r.newText = currentLines[r.lineNumber]

\* a line that normalization changes was paired by its normalized form and
\* another removed line stayed unpaired
C5_Witness ==
    /\ Built
    /\ \E k \in 1..Len(LineChangesOfView) :
           /\ LineChangesOfView[k].type = "modified"
           /\ normalizeLineForMatch(LineChangesOfView[k].oldText)
                  # LineChangesOfView[k].oldText
           /\ normalizeLineForMatch(LineChangesOfView[k].oldText)
                  = normalizeLineForMatch(LineChangesOfView[k].newText)
    /\ Len(RecordsOfType("deleted")) > 0

OldLinesBefore(p) == Len(RunLinesNot(SubSeq(arrayDiff, 1, p - 1), "inserted"))

NewLinesBefore(p) == Len(RunLinesNot(SubSeq(arrayDiff, 1, p - 1), "deleted"))

\* run p is a deleted run directly followed by an inserted run
IsReplacedRegion(p) ==
    /\ p \in 1..(Len(arrayDiff) - 1)
    /\ arrayDiff[p].removed
    /\ arrayDiff[p + 1].added

\* the records other than unchanged that belong to the replaced region at p
RegionRecords(p) ==
    SelectSeq(LineChangesOfView,
        LAMBDA r :
            \/ /\ r.type \in {"deleted", "modified"}
               /\ r.originalLineNumber - OldLinesBefore(p)
                      \in 1..Len(arrayDiff[p].value)
            \/ /\ r.type \in {"added", "modified"}
               /\ r.lineNumber - NewLinesBefore(p)
                      \in 1..Len(arrayDiff[p + 1].value))

\* C6: a deleted run of k lines directly followed by an inserted run of k
\* lines yields exactly k modified records, the i-th removed line paired
\* with the i-th inserted line, and no added or deleted record.
C6_SameCountPairsByPosition ==
    Built =>
        \A p \in 1..Len(arrayDiff) :
            (IsReplacedRegion(p) /\ Len(arrayDiff[p].value) = Len(arrayDiff[p + 1].value)) =>
                RegionRecords(p) =
                    [i \in 1..Len(arrayDiff[p].value) |->
                        [lineNumber         |-> NewLinesBefore(p) + i,
                         type               |-> "modified",
                         originalLineNumber |-> OldLinesBefore(p) + i,
                         oldText            |-> originalLines[OldLinesBefore(p) + i],
                         newText            |-> currentLines[NewLinesBefore(p) + i]]]

\* two lines replaced by two lines that share no character with them
C6_Witness ==
    /\ Built
    /\ \E p \in 1..Len(arrayDiff) :
           /\ IsReplacedRegion(p)
           /\ Len(arrayDiff[p].value) = 2
           /\ Len(arrayDiff[p + 1].value) = 2
           /\ \A i \in 1..2 :
                  /\ CharSet(arrayDiff[p].value[i]) # {}
                  /\ CharSet(arrayDiff[p + 1].value[i]) # {}
                  /\ CharSet(arrayDiff[p].value[i])
                         \cap CharSet(arrayDiff[p + 1].value[i]) = {}

\* the pairing score of removed line j and inserted line i (0-based) of the
\* replaced region at p
RegionScore(p, i, j) ==
    calculatePairSimilarity(
        [text       |-> originalLines[OldLinesBefore(p) + j + 1],
         normalized |-> normalizeLineForMatch(originalLines[OldLinesBefore(p) + j + 1])],
        currentLines[NewLinesBefore(p) + i + 1],
        normalizeLineForMatch(currentLines[NewLinesBefore(p) + i + 1]))

\* <<i, j>> for every modified record of the replaced region at p
RegionPairs(p) ==
    {<<RegionRecords(p)[q].lineNumber - NewLinesBefore(p) - 1,
       RegionRecords(p)[q].originalLineNumber - OldLinesBefore(p) - 1>> :
        q \in {q \in 1..Len(RegionRecords(p)) : RegionRecords(p)[q].type = "modified"}}

RegionRecordCount(p, type) ==
    Len(SelectSeq(RegionRecords(p), LAMBDA r : r.type = type))

\* C7: in a replaced region of k removed and m # k inserted lines, a pair
\* (i, j) has |i - j| <= 5 and score >= 0.6, j scores best among the removed
\* lines of the window not paired with an earlier inserted line, no line is
\* paired twice, and every other line is a deleted or an added record.
C7_SimilarityPairing ==
    Built =>
        \A p \in 1..Len(arrayDiff) :
            (IsReplacedRegion(p) /\ Len(arrayDiff[p].value) # Len(arrayDiff[p + 1].value)) =>
                LET k == Len(arrayDiff[p].value)
                    m == Len(arrayDiff[p + 1].value)
                    pairs == RegionPairs(p)
                    records == RegionRecords(p)
                IN  /\ \A pr \in pairs :
                           /\ pr[1] \in 0..(m - 1)
                           /\ pr[2] \in 0..(k - 1)
                           /\ Abs(pr[1] - pr[2]) <= 5
                           /\ FracGE(RegionScore(p, pr[1], pr[2]), <<3, 5>>)
                           /\ \A j \in 0..(k - 1) :
                                  (/\ Abs(pr[1] - j) <= 5
                                   /\ ~\E earlier \in pairs :
                                          earlier[2] = j /\ earlier[1] < pr[1])
                                  => FracGE(RegionScore(p, pr[1], pr[2]),
                                            RegionScore(p, pr[1], j))
                    /\ \A pr1, pr2 \in pairs :
                           (pr1[1] = pr2[1] \/ pr1[2] = pr2[2]) => pr1 = pr2
                    /\ RegionRecordCount(p, "modified") = Cardinality(pairs)
                    /\ RegionRecordCount(p, "deleted") = k - Cardinality(pairs)
                    /\ RegionRecordCount(p, "added") = m - Cardinality(pairs)
                    /\ \A j \in 0..(k - 1) :
                           (~\E pr \in pairs : pr[2] = j) =>
                               \E q \in 1..Len(records) :
                                   /\ records[q].type = "deleted"
                                   /\ records[q].originalLineNumber
                                          = OldLinesBefore(p) + j + 1
                    /\ \A i \in 0..(m - 1) :
                           (~\E pr \in pairs : pr[1] = i) =>
                               \E q \in 1..Len(records) :
                                   /\ records[q].type = "added"
                                   /\ records[q].lineNumber = NewLinesBefore(p) + i + 1

\* an inserted line stays unpaired although a removed line more than 5
\* positions away scores above the threshold, and another line is paired
C7_Witness ==
    /\ Built
    /\ \E p \in 1..Len(arrayDiff) :
           /\ IsReplacedRegion(p)
           /\ Len(arrayDiff[p].value) # Len(arrayDiff[p + 1].value)
           /\ RegionPairs(p) # {}
           /\ \E i \in 0..(Len(arrayDiff[p + 1].value) - 1),
                 j \in 0..(Len(arrayDiff[p].value) - 1) :
                  /\ ~\E pr \in RegionPairs(p) : pr[1] = i
                  /\ Abs(i - j) > 5
                  /\ FracGE(RegionScore(p, i, j), <<3, 5>>)

\* C8: the anchor of every deleted record is 0 or a line of the current
\* document.
C8_AnchorValidity ==
    Built =>
        \A k \in 1..Len(LineChangesOfView) :
            LineChangesOfView[k].type = "deleted" =>
                LineChangesOfView[k].anchorLineNumber \in 0..Len(currentLines)

\* lines deleted behind the last current line, anchored at that line
C8_Witness ==
    /\ Built
    /\ \E k \in 1..Len(LineChangesOfView) :
           /\ LineChangesOfView[k].type = "deleted"
           /\ LineChangesOfView[k].anchorLineNumber = Len(currentLines)
           /\ LineChangesOfView[k].lineNumber = Len(currentLines) + 1

----------------------------------------------------------------------------
(* Properties of the change blocks *)

BlocksOverlap(x, y) == ~(x.endLine < y.startLine \/ y.endLine < x.startLine)

\* C9: no two blocks overlap in their current-line ranges, and two
\* consecutive blocks are separated by a kind change or a line gap above 1.
C9_BlockPartition ==
    pc = "blocks" =>
        /\ \A i, j \in 1..Len(changeBlocks) :
               i < j => ~BlocksOverlap(changeBlocks[i], changeBlocks[j])
        /\ \A i \in 1..(Len(changeBlocks) - 1) :
               LET last  == changeBlocks[i].changes[Len(changeBlocks[i].changes)]
                   first == changeBlocks[i + 1].changes[1]
               IN  \/ last.type # first.type
                   \/ first.lineNumber > last.lineNumber + 1

----------------------------------------------------------------------------
(* Properties of the change store *)

\* the last operation was a content-change notification for a file
\* document, processed while recording
NotifiedWhileRecording ==
    /\ lastEvent # Undefined
    /\ lastEvent[1].wasRecording
    /\ lastEvent[1].document.uri.scheme = "file"

\* what the subscribers of the given delivery see for path p, content c
ReflectsContent(seen, p, c) ==
    /\ p \in DOMAIN seen.fileSnapshots
    /\ IF c = seen.fileSnapshots[p]
       THEN /\ p \notin DOMAIN seen.trackedChanges
            /\ p \notin DOMAIN seen.lineChanges
            /\ p \notin DOMAIN seen.inlineViews
       ELSE /\ p \in DOMAIN seen.lineChanges
            /\ p \in DOMAIN seen.inlineViews
            /\ seen.lineChanges[p] =
                   buildDiffViewFromLines(Split(seen.fileSnapshots[p]), Split(c)).lineChanges
            /\ seen.inlineViews[p] =
                   buildDiffViewFromLines(Split(seen.fileSnapshots[p]), Split(c)).inlineView

\* C10: a notification processed while recording emits exactly one change
\* event, and at its delivery the store reflects the notified content: no
\* entry when it equals the baseline, else the diff of baseline and content.
C10_EventSeesRecomputedStore ==
    NotifiedWhileRecording =>
        /\ Len(fired) = 1
        /\ fired[1].emitter = "onDidTrackChanges"
        /\ ReflectsContent(fired[1].state,
                           lastEvent[1].document.uri.fsPath,
                           lastEvent[1].document.text)

\* a notification that shortens a two-line baseline to its first line has
\* been processed while recording: the file is tracked and its cached
\* inline view shows the kept line and the deleted one
C10_Witness ==
    /\ NotifiedWhileRecording
    /\ Len(fired) = 1
    /\ LET p == lastEvent[1].document.uri.fsPath
       IN  /\ p \in DOMAIN trackedChanges
           /\ p \in DOMAIN inlineViews
           /\ trackedChanges[p].originalContent = <<"a", NL, "b">>
           /\ trackedChanges[p].currentContent = <<"a">>
           /\ Len(inlineViews[p].lineTypes) = 2

\* the last operation was a content-change notification that one of the
\* two guards of the handler turns away
NotifiedButIgnored ==
    /\ lastEvent # Undefined
    /\ \/ ~lastEvent[1].wasRecording
       \/ lastEvent[1].document.uri.scheme # "file"

\* C11: a notification that arrives while recording is off, or for a
\* document whose scheme is not 'file', leaves baselines, tracked entries,
\* change lists and inline views as they were and emits no event.
C11_IgnoredNotificationChangesNothing ==
    [][NotifiedButIgnored' =>
           /\ UNCHANGED trackerVars
           /\ fired' = <<>>]_vars

\* after stopRecording a tracked file document is edited again: nothing is
\* emitted and the tracked entry still holds the content of the last
\* edit made while recording
C11_Witness ==
    /\ NotifiedButIgnored
    /\ lastEvent[1].document.uri.scheme = "file"
    /\ fired = <<>>
    /\ LET p == lastEvent[1].document.uri.fsPath
       IN  /\ p \in DOMAIN trackedChanges
           /\ trackedChanges[p].currentContent # lastEvent[1].document.text

\* the last operation was the first notification for a path without a
\* baseline, processed while recording, and the disk read failed
FirstEditOfNewFile ==
    /\ NotifiedWhileRecording
    /\ lastEvent[1].read = Some(Undefined)

FirstEditReadDisk ==
    /\ NotifiedWhileRecording
    /\ lastEvent[1].read # Undefined

\* the baseline the disk read leads to
BaselineOfRead(readResult) == IF readResult = Undefined THEN <<>> ELSE readResult[1]

\* C13: on the first notification for a path without baseline the handler
\* completes whether or not the disk read fails: the baseline is the empty
\* string after a failed read and the on-disk content after a successful
\* one, and the change is tracked against that baseline.
C13_ReadFailureFallsBack ==
    FirstEditReadDisk =>
        LET p == lastEvent[1].document.uri.fsPath
            c == lastEvent[1].document.text
            b == BaselineOfRead(lastEvent[1].read[1])
        IN  /\ p \in DOMAIN fileSnapshots
            /\ fileSnapshots[p] = b
            /\ Len(fired) = 1
            /\ IF c = b THEN p \notin DOMAIN trackedChanges
               ELSE /\ p \in DOMAIN trackedChanges
                    /\ trackedChanges[p].originalContent = b
                    /\ trackedChanges[p].currentContent = c

\* the disk read failed and the two-line content of the new file is
\* tracked against the empty baseline
C13_Witness ==
    /\ FirstEditReadDisk
    /\ lastEvent[1].read = Some(Undefined)
    /\ LET p == lastEvent[1].document.uri.fsPath
       IN  /\ fileSnapshots[p] = <<>>
           /\ p \in DOMAIN trackedChanges
           /\ trackedChanges[p].originalContent = <<>>
           /\ trackedChanges[p].currentContent = <<"a", NL, "b">>

\* C14: for a path without baseline every query returns absent and
\* getChangeBlocks returns the empty list, in every reachable state.
C14_NoBaselineQueriesAbsent ==
    \A p \in Paths :
        p \notin DOMAIN fileSnapshots =>
            /\ getLineChanges(Tracker, p) = Undefined
            /\ getOriginalContent(Tracker, p) = Undefined
            /\ getInlineLineTypes(Tracker, p) = Undefined
            /\ getInlineContent(Tracker, textDocuments, p) = Undefined
            /\ getInlineView(Tracker, textDocuments, p) = Undefined
            /\ getChangeBlocks(getLineChanges(Tracker, p)) = <<>>

\* an inline view has just been asked for while a file document is open
\* that was first edited with recording off, so it has no baseline, and
\* another file is tracked
C14_Witness ==
    /\ lastEvent = Undefined
    /\ fired = <<>>
    /\ trackedChanges # EmptyMap
    /\ \E d \in DOMAIN textDocuments :
           /\ d.scheme = "file"
           /\ d.fsPath \notin DOMAIN fileSnapshots

\* C15: after clearDiffs, and after any queries that follow it with no
\* content change or startRecording in between, getLineChanges,
\* getInlineView, getInlineContent and getOriginalContent return absent for
\* every path and getTrackedChanges is empty.
C15_ClearDiffsClearsEverything ==
    sinceClear =>
        /\ getTrackedChanges(Tracker) = {}
        /\ \A p \in Paths :
               /\ getLineChanges(Tracker, p) = Undefined
               /\ getInlineView(Tracker, textDocuments, p) = Undefined
               /\ getInlineContent(Tracker, textDocuments, p) = Undefined
               /\ getOriginalContent(Tracker, p) = Undefined

\* the baselines startRecording captures: the text of every open file document
OpenFileBaselines(docs) ==
    [path \in {d.fsPath : d \in {x \in DOMAIN docs : x.scheme = "file"}} |->
        docs[CHOOSE d \in DOMAIN docs : d.scheme = "file" /\ d.fsPath = path]]

\* C16: stopRecording changes only the recording flag and emits the
\* recording-state event, so every query answers as before; startRecording
\* empties the maps and captures the open file documents, and no other
\* operation changes or drops a captured baseline.
C16_StopKeepsSessionStartResets ==
    [][/\ fired' = <<RecordingStateEvent(FALSE)>> =>
              /\ isRecording' = FALSE
              /\ UNCHANGED <<fileSnapshots, trackedChanges, lineChanges,
                             inlineViews, textDocuments>>
       /\ fired' = <<RecordingStateEvent(TRUE)>> =>
              /\ isRecording' = TRUE
              /\ trackedChanges' = EmptyMap
              /\ lineChanges' = EmptyMap
              /\ inlineViews' = EmptyMap
              /\ fileSnapshots' = OpenFileBaselines(textDocuments)
       /\ fired' # <<RecordingStateEvent(TRUE)>> =>
              \A p \in DOMAIN fileSnapshots :
                  /\ p \in DOMAIN fileSnapshots'
                  /\ fileSnapshots'[p] = fileSnapshots[p]]_vars

\* recording has just been stopped with a file still tracked and its
\* views cached
C16_Witness ==
    /\ fired = <<RecordingStateEvent(FALSE)>>
    /\ ~isRecording
    /\ trackedChanges # EmptyMap
    /\ DOMAIN lineChanges = DOMAIN trackedChanges
    /\ DOMAIN inlineViews = DOMAIN trackedChanges

----------------------------------------------------------------------------
(* Properties of revertFile *)

\* the step ends a revertFile call
RevertReturns == revert' # Undefined /\ revert'[1].pc = "returned" /\ revert' # revert

\* C17: a revertFile call that returns false has left baselines, tracked
\* entries, change lists and inline views as they were and emits no change
\* event itself; a call that returns true has replaced the document content
\* by the baseline, and the path then has no tracked entry, no change list
\* and no inline view.
C17_RevertFileAllOrNothing ==
    [][RevertReturns =>
           IF revert'[1].result
           THEN /\ revert'[1].replaced
                /\ revert'[1].filePath \notin DOMAIN trackedChanges'
                /\ revert'[1].filePath \notin DOMAIN lineChanges'
                /\ revert'[1].filePath \notin DOMAIN inlineViews'
           ELSE /\ UNCHANGED trackerVars
                /\ fired' = <<>>
                /\ ~revert'[1].touched]_vars

----------------------------------------------------------------------------
(* Properties of the block operations *)

\* the changed records of a change list, in line order
ChangedRecords(got) ==
    IF got = Undefined THEN <<>>
    ELSE sortByLineNumber(SelectSeq(got[1], LAMBDA c : c.type # "unchanged"))

\* the number of maximal runs of records of one kind on consecutive lines
BlockCount(changes) ==
    IF changes = <<>> THEN 0
    ELSE 1 + Cardinality({i \in 2..Len(changes) :
                              \/ changes[i].type # changes[i - 1].type
                              \/ changes[i].lineNumber > changes[i - 1].lineNumber + 1})

\* the step is a revertBlock or keepBlock call
BlockCallReturns ==
    /\ revert' # Undefined
    /\ revert' # revert
    /\ revert'[1].pc = "returned"
    /\ "index" \in DOMAIN revert'[1]

\* C18: revertBlock and keepBlock called with an index outside the block
\* list recomputed from the current change list report false and change
\* neither the document nor the session state.
C18_StaleBlockIndexIsNoOp ==
    [][(/\ BlockCallReturns
        /\ \/ revert'[1].index < 0
           \/ revert'[1].index >=
                  BlockCount(ChangedRecords(getLineChanges(Tracker, revert'[1].filePath))))
       => /\ ~revert'[1].result
          /\ fired' = <<>>
          /\ UNCHANGED <<trackerVars, textDocuments>>]_vars

\* a call with index 1 has just failed on a document whose two added
\* lines form one block
C18_Witness ==
    /\ revert # Undefined
    /\ revert[1].pc = "returned"
    /\ "index" \in DOMAIN revert[1]
    /\ revert[1].index = 1
    /\ ~revert[1].result
    /\ Len(ChangedRecords(getLineChanges(Tracker, revert[1].filePath))) = 2
    /\ BlockCount(ChangedRecords(getLineChanges(Tracker, revert[1].filePath))) = 1

----------------------------------------------------------------------------
(* Properties of the anchors and of the two outputs of one pass *)

\* the records of baseline lines before line o that are still in the
\* current document, unchanged or modified
SurvivorsBefore(o) ==
    {k \in 1..Len(LineChangesOfView) :
        /\ LineChangesOfView[k].type \in {"unchanged", "modified"}
        /\ LineChangesOfView[k].originalLineNumber < o}

\* the current line of the nearest of them, 0 when there is none
NearestSurvivingLine(o) ==
    IF SurvivorsBefore(o) = {} THEN 0
    ELSE LineChangesOfView[
             CHOOSE k \in SurvivorsBefore(o) :
                 \A j \in SurvivorsBefore(o) :
                     LineChangesOfView[j].originalLineNumber
                         <= LineChangesOfView[k].originalLineNumber].lineNumber

\* C19: the anchor of a deleted record is the current line number of the
\* nearest baseline line before it that is still in the current document,
\* as an unchanged or a modified line, and 0 when there is none.
C19_AnchorIsNearestSurvivor ==
    Built =>
        \A k \in 1..Len(LineChangesOfView) :
            LineChangesOfView[k].type = "deleted" =>
                LineChangesOfView[k].anchorLineNumber
                    = NearestSurvivingLine(LineChangesOfView[k].originalLineNumber)

\* the number of entries of a sequence that satisfy a test
CountOf(seq, Test(_)) == Cardinality({k \in 1..Len(seq) : Test(seq[k])})

\* C20: the inline view and the change list of one pass agree on removed
\* and inserted lines: lineTypes has as many 'deleted' entries as there are
\* 'deleted' and 'modified' records, and as many 'added' entries as there
\* are 'added' and 'modified' records.
C20_InlineViewAgreesWithChangeList ==
    Built =>
        /\ CountOf(diffView.inlineView.lineTypes, LAMBDA t : t = "deleted")
               = CountOf(LineChangesOfView, LAMBDA c : c.type \in {"deleted", "modified"})
        /\ CountOf(diffView.inlineView.lineTypes, LAMBDA t : t = "added")
               = CountOf(LineChangesOfView, LAMBDA c : c.type \in {"added", "modified"})

----------------------------------------------------------------------------
(* Properties of the order of the inline view *)

\* C21: no 'added' entry of lineTypes is immediately followed by a 'deleted'
\* entry, and no inserted run of the aligner is immediately followed by a
\* deleted run.
C21_DeletedBeforeAdded ==
    /\ Aligned =>
           \A k \in 1..(Len(arrayDiff) - 1) :
               ~(RunKind(arrayDiff[k]) = "inserted" /\ RunKind(arrayDiff[k + 1]) = "deleted")
    /\ Built =>
           \A k \in 1..(Len(diffView.inlineView.lineTypes) - 1) :
               ~(/\ diffView.inlineView.lineTypes[k] = "added"
                 /\ diffView.inlineView.lineTypes[k + 1] = "deleted")

\* a replaced region between two kept lines or next to an anchor: a deleted
\* run immediately followed by an inserted run, shown as deleted then added
C21_Witness ==
    /\ Built
    /\ Len(arrayDiff) >= 3
    /\ \E k \in 1..(Len(arrayDiff) - 1) :
           RunKind(arrayDiff[k]) = "deleted" /\ RunKind(arrayDiff[k + 1]) = "inserted"
    /\ \E k \in 1..(Len(diffView.inlineView.lineTypes) - 1) :
           /\ diffView.inlineView.lineTypes[k] = "deleted"
           /\ diffView.inlineView.lineTypes[k + 1] = "added"

----------------------------------------------------------------------------
(* Properties of the anchors *)

\* the ranges [start, end) of a line sequence
RangesOf(lines) == {r \in (0..Len(lines)) \X (0..Len(lines)) : r[1] <= r[2]}

OccurrencesIn(lines, r, line) ==
    Cardinality({i \in r[1]..(r[2] - 1) : At(lines, i) = line})

AnchorsOf(oldRange, newRange) ==
    findAnchors(originalLines,
                findUniqueLineIndices(originalLines, oldRange[1], oldRange[2]),
                currentLines,
                findUniqueLineIndices(currentLines, newRange[1], newRange[2]))

\* the pairs (oldIdx, newIdx) of the lines that occur exactly once in each
\* of the two ranges
UniquePairs(oldRange, newRange) ==
    {p \in (oldRange[1]..(oldRange[2] - 1)) \X (newRange[1]..(newRange[2] - 1)) :
        /\ At(originalLines, p[1]) = At(currentLines, p[2])
        /\ OccurrencesIn(originalLines, oldRange, At(originalLines, p[1])) = 1
        /\ OccurrencesIn(currentLines, newRange, At(currentLines, p[2])) = 1}

IsChain(pairs) ==
    \A p \in pairs, q \in pairs : p[1] < q[1] <=> p[2] < q[2]

\* C22: for every pair of ranges, findAnchors returns pairs of equal lines,
\* each unique in its active range on both sides, strictly increasing in both
\* indices, and no longer such chain exists among the lines unique to both
\* ranges.
C22_AnchorsAreLongestUniqueChain ==
    pc = "aligned" =>
        \A oldRange \in RangesOf(originalLines), newRange \in RangesOf(currentLines) :
            LET anchors == AnchorsOf(oldRange, newRange)
                unique  == UniquePairs(oldRange, newRange)
            IN  /\ \A k \in 1..Len(anchors) : anchors[k] \in unique
                /\ \A k \in 1..(Len(anchors) - 1) :
                       /\ anchors[k][1] < anchors[k + 1][1]
                       /\ anchors[k][2] < anchors[k + 1][2]
                /\ \A chain \in SUBSET unique :
                       IsChain(chain) => Cardinality(chain) <= Len(anchors)

\* three lines unique to both documents in crossing order, so that the
\* anchors are a proper choice among them
C22_Witness ==
    /\ pc = "aligned"
    /\ \E oldRange \in RangesOf(originalLines), newRange \in RangesOf(currentLines) :
           /\ Cardinality(UniquePairs(oldRange, newRange)) = 3
           /\ Len(AnchorsOf(oldRange, newRange)) = 2

----------------------------------------------------------------------------
(* Properties of positionalDiff *)

PositionalDiffOf(oldRange, newRange) ==
    positionalDiff(originalLines, oldRange[1], oldRange[2],
                   currentLines, newRange[1], newRange[2])

OldRangeLines(r) == Slice(originalLines, r[1], r[2])

NewRangeLines(r) == Slice(currentLines, r[1], r[2])

LastLines(lines, n) == SubSeq(lines, Len(lines) - n + 1, Len(lines))

FirstLines(lines, n) == SubSeq(lines, 1, n)

\* two non-empty ranges without an anchor
NoAnchorRanges ==
    {rs \in RangesOf(originalLines) \X RangesOf(currentLines) :
        /\ rs[1][1] < rs[1][2]
        /\ rs[2][1] < rs[2][2]
        /\ Len(AnchorsOf(rs[1], rs[2])) = 0}

\* C23: over two non-empty ranges without an anchor, when old is longer and
\* new equals the last lines of old the result is [deleted(first lines),
\* equal(rest)], also when new equals the first lines of old as well; when
\* new is longer and old equals the last lines of new the result is
\* [inserted(first lines), equal(rest)], also when old equals the first
\* lines of new as well.
C23_SuffixCaseFirst ==
    pc = "aligned" =>
        \A rs \in NoAnchorRanges :
            LET old    == OldRangeLines(rs[1])
                new    == NewRangeLines(rs[2])
                result == PositionalDiffOf(rs[1], rs[2])
            IN  /\ (Len(old) > Len(new) /\ LastLines(old, Len(new)) = new) =>
                       result = <<RemovedRun(FirstLines(old, Len(old) - Len(new))),
                                  EqualRun(LastLines(old, Len(new)))>>
                /\ (Len(new) > Len(old) /\ LastLines(new, Len(old)) = old) =>
                       result = <<AddedRun(FirstLines(new, Len(new) - Len(old))),
                                  EqualRun(LastLines(new, Len(old)))>>

\* a shorter new range that is both the last and the first lines of the old
\* range, and a sub-range pair where the old range is both the last and the
\* first lines of the longer new range
C23_Witness ==
    /\ pc = "aligned"
    /\ \E rs \in NoAnchorRanges :
           LET old == OldRangeLines(rs[1])
               new == NewRangeLines(rs[2])
           IN  /\ Len(old) > Len(new)
               /\ LastLines(old, Len(new)) = new
               /\ FirstLines(old, Len(new)) = new
               /\ RunKind(PositionalDiffOf(rs[1], rs[2])[1]) = "deleted"
    /\ \E rs \in NoAnchorRanges :
           LET old == OldRangeLines(rs[1])
               new == NewRangeLines(rs[2])
           IN  /\ Len(new) > Len(old)
               /\ LastLines(new, Len(old)) = old
               /\ FirstLines(new, Len(old)) = old
               /\ RunKind(PositionalDiffOf(rs[1], rs[2])[1]) = "inserted"

----------------------------------------------------------------------------
(* Properties of the similarity score *)

\* the removed line and the inserted line of the region
ScoredDeleted == originalLines[1]

ScoredAdded == currentLines[1]

\* the region was paired by similarity: one removed line, two inserted
IsScoredRegion ==
    /\ Built
    /\ Len(arrayDiff) = 2
    /\ RunKind(arrayDiff[1]) = "deleted"
    /\ RunKind(arrayDiff[2]) = "inserted"

PairScore ==
    calculatePairSimilarity(
        [text               |-> ScoredDeleted,
         normalized         |-> normalizeLineForMatch(ScoredDeleted),
         originalLineNumber |-> 1],
        ScoredAdded, normalizeLineForMatch(ScoredAdded))

\* |A \cap B| / |A \cup B|, and 1 for two empty sets
Jaccard(A, B) ==
    IF A \cup B = {} THEN <<1, 1>>
    ELSE <<Cardinality(A \cap B), Cardinality(A \cup B)>>

NonSpaceChars(text) == CharSet(text) \ WhiteSpace

NormalizedEqual ==
    /\ normalizeLineForMatch(ScoredDeleted) = normalizeLineForMatch(ScoredAdded)
    /\ normalizeLineForMatch(ScoredDeleted) # <<>>

InUnitInterval(score) ==
    score[2] > 0 /\ 0 <= score[1] /\ score[1] <= score[2]

\* C24 as stated: the score is 1 when the normalized forms are equal and
\* non-empty, otherwise the larger of the Jaccard similarity of the character
\* sets of the raw texts and of the normalized texts; it lies in [0, 1].
C24_ScoreIsJaccardOfTexts ==
    IsScoredRegion =>
        /\ InUnitInterval(PairScore)
        /\ IF NormalizedEqual THEN FracEQ(PairScore, <<1, 1>>)
           ELSE FracEQ(PairScore,
                       FracMax(Jaccard(CharSet(ScoredDeleted), CharSet(ScoredAdded)),
                               Jaccard(CharSet(normalizeLineForMatch(ScoredDeleted)),
                                       CharSet(normalizeLineForMatch(ScoredAdded)))))

\* C24 amended: the character sets are those of the non-whitespace
\* characters of the raw texts and of the normalized texts.
C24_ScoreIsJaccardOfNonSpaceChars ==
    IsScoredRegion =>
        /\ InUnitInterval(PairScore)
        /\ IF NormalizedEqual THEN FracEQ(PairScore, <<1, 1>>)
           ELSE FracEQ(PairScore,
                       FracMax(Jaccard(NonSpaceChars(ScoredDeleted),
                                       NonSpaceChars(ScoredAdded)),
                               Jaccard(NonSpaceChars(normalizeLineForMatch(ScoredDeleted)),
                                       NonSpaceChars(normalizeLineForMatch(ScoredAdded)))))

\* a removed line with white space between its characters whose normalized
\* form differs from the inserted line's, scored strictly between 0 and 1
C24_Witness ==
    /\ IsScoredRegion
    /\ ~NormalizedEqual
    /\ CharSet(Trim(ScoredDeleted)) \cap WhiteSpace # {}
    /\ FracGT(PairScore, <<0, 1>>)
    /\ FracGT(<<1, 1>>, PairScore)

----------------------------------------------------------------------------
(* Properties of the line normalisation *)

CommentMarkers == {<<"/", "/">>, <<"#">>, <<"-", "-">>, <<"/", "*">>}

\* the value without the one comment marker it starts with, if any
WithoutOneLeadingMarker(value) ==
    IF \E marker \in CommentMarkers : StartsWith(value, marker)
    THEN StripLeading(value, CHOOSE marker \in CommentMarkers : StartsWith(value, marker))
    ELSE value

NormalizedOnce(input) ==
    Trim(CollapseSpaces(
        StripTrailing(WithoutOneLeadingMarker(Trim(input)), <<"*", "/">>)))

\* C25: normalizeLineForMatch trims the line, strips one leading comment
\* marker and one trailing */, collapses white space runs to one space and
\* trims again; of two leading markers in a row only the first is removed.
C25_StripsOneLeadingMarker ==
    Built => normalizeLineForMatch(originalLines[1]) = NormalizedOnce(originalLines[1])

----------------------------------------------------------------------------
(* Properties of the queries *)

\* the step is a query of a presentation collaborator: it handles no
\* notification and fires no event
QueryStep == lastEvent' = Undefined /\ fired' = <<>>

\* C26: a query leaves baselines, tracked entries, change lists and inline
\* views exactly as they were.
C26_QueriesOnlyRead ==
    [][QueryStep => UNCHANGED trackerVars]_vars

----------------------------------------------------------------------------
(* Properties of the change list as a whole *)

\* the positions of the records whose type is one of the given ones
RecordsOfTypes(types) == {k \in 1..Len(LineChangesOfView) : LineChangesOfView[k].type \in types}

\* C27: the unchanged, added and modified records number the current lines
\* 1..len(new) once each, and the unchanged, modified and deleted records
\* number the baseline lines 1..len(old) once each.
C27_ChangeListPartitionsBothDocuments ==
    Built =>
        LET current  == RecordsOfTypes({"unchanged", "added", "modified"})
            baseline == RecordsOfTypes({"unchanged", "modified", "deleted"})
        IN  /\ {LineChangesOfView[k].lineNumber : k \in current} = 1..Len(currentLines)
            /\ \A j \in current, k \in current :
                   LineChangesOfView[j].lineNumber = LineChangesOfView[k].lineNumber => j = k
            /\ {LineChangesOfView[k].originalLineNumber : k \in baseline}
                   = 1..Len(originalLines)
            /\ \A j \in baseline, k \in baseline :
                   LineChangesOfView[j].originalLineNumber
                       = LineChangesOfView[k].originalLineNumber => j = k

\* blank baseline lines removed in a region with a different number of
\* inserted lines: reported as deleted next to the added records
C27_Witness ==
    /\ Built
    /\ Len(originalLines) >= 2
    /\ \E k \in 1..Len(LineChangesOfView) :
           /\ LineChangesOfView[k].type = "deleted"
           /\ IsBlank(LineChangesOfView[k].oldText)
    /\ \E k \in 1..Len(LineChangesOfView) : LineChangesOfView[k].type = "added"

----------------------------------------------------------------------------
(* Properties of the session maps *)

\* C28: the paths with a change list are the paths with an inline view,
\* every path with a tracked entry has both and has a baseline, and a
\* tracked entry's originalContent is the stored baseline of its path and
\* differs from its currentContent.
C28_SessionMapsConsistent ==
    /\ DOMAIN lineChanges = DOMAIN inlineViews
    /\ \A p \in DOMAIN trackedChanges :
           /\ p \in DOMAIN lineChanges
           /\ p \in DOMAIN inlineViews
           /\ p \in DOMAIN fileSnapshots
           /\ trackedChanges[p].originalContent = fileSnapshots[p]
           /\ trackedChanges[p].originalContent # trackedChanges[p].currentContent

\* revertAllChanges waits for its save while recording goes on and an edit
\* notified meanwhile has put the path back among the tracked entries
C28_Witness ==
    /\ InFlight
    /\ revert[1].pc = "all:saving"
    /\ isRecording
    /\ lastEvent # Undefined
    /\ revert[1].filePath \in DOMAIN trackedChanges
    /\ textDocuments[FileUri(revert[1].filePath)] # revert[1].change.currentContent

----------------------------------------------------------------------------
(* Properties of the 'modified' pairs *)

\* C29: 'modified' records in the order of their lineNumber are in the
\* order of their originalLineNumber.
C29_ModifiedPairsDoNotCross ==
    Built =>
        \A j \in RecordsOfTypes({"modified"}), k \in RecordsOfTypes({"modified"}) :
            LineChangesOfView[j].lineNumber < LineChangesOfView[k].lineNumber
                => LineChangesOfView[j].originalLineNumber
                       < LineChangesOfView[k].originalLineNumber

----------------------------------------------------------------------------
(* Properties of revertFile under interleaved edits *)

\* C30: when revertFile(p) returns true while recording, with the baseline
\* of p the one the call started from, the live document of p equals its
\* baseline or p still has a tracked entry.
C30_RevertKeepsInterleavedEdit ==
    [][(/\ RevertReturns
        /\ revert'[1].result = TRUE
        /\ isRecording'
        /\ MapGet(fileSnapshots', revert'[1].filePath) = Some(revert[1].change.originalContent)) =>
           \/ /\ revert'[1].filePath \in DOMAIN fileSnapshots'
              /\ textDocuments'[FileUri(revert'[1].filePath)]
                     = fileSnapshots'[revert'[1].filePath]
           \/ revert'[1].filePath \in DOMAIN trackedChanges']_vars

====
